---- MODULE Spec2Model ----
(***************************************************************************)
(* Detection-media storage pipeline of smartoko_app:                       *)
(*   backend/app/core/file_storage_manager.py  (FileStorageManager)        *)
(*   backend/app/services/media_service.py     (MediaService)              *)
(*   backend/app/repositories/media_repository.py, user_repository.py      *)
(*                                                                         *)
(* Paths are sequences of path segments, relative to the storage root      *)
(* (settings.upload_base_directory).  A URL is the sequence of segments of *)
(* the static prefix followed by the segments of the relative path.        *)
(* An Optional[T] value is a sequence of length <= 1: <<>> is None.         *)
(***************************************************************************)
EXTENDS Integers, Sequences, FiniteSets, TLC

VARIABLES
    file_storage,           \* the module-level FileStorageManager instance
    static_file_url_prefix, \* settings.static_files_url_prefix, as segments
    now,                    \* wall clock, in seconds
    dirs,                   \* directories that exist under the storage root
    files,                  \* files that exist under the storage root
    scratch,                \* files that exist under /tmp/smartoko_upload
    db,                     \* detection_result rows: id -> row, or NoRow
    audit,                  \* the audit log, one entry per appended line
    reqs,                   \* in-flight MediaService requests
    done,                   \* completed MediaService requests
    next_file_id,           \* identity given to the next file written
    micro,                  \* microsecond of the last clock reading in second now
    nfaults,                \* faults of the environment met by MediaService so far
    nops,                   \* number of calls started so far
    last                    \* the last completed FileStorageManager call

vars == <<file_storage, static_file_url_prefix, now, dirs, files, scratch, db, audit,
          reqs, done, next_file_id, micro, nfaults, nops, last>>

----------------------------------------------------------------------------
(* Bounds of the model *)

MaxOps == 1
MaxTime == 1
MaxUploads == 2
MaxDeletes == 2
MaxInFlight == 2
MaxFaults == 1
MaxRequests == 4
MaxCallers == 2

(* Program constants *)

max_image_file_size_mb == 10
max_video_file_size_mb == 50

max_image_file_size_bytes == max_image_file_size_mb * 1024 * 1024
max_video_file_size_bytes == max_video_file_size_mb * 1024 * 1024

current_environment == "development"

original_images_directory == "images"
thumbnail_images_directory == "thumbnails"
original_videos_directory == "videos"
video_clips_directory == "video_clips"

required_directories ==
    { <<original_images_directory>>, <<thumbnail_images_directory>>,
      <<original_videos_directory>>, <<video_clips_directory>> }

----------------------------------------------------------------------------
(* Optional values *)

NoneV == <<>>
Some(v) == <<v>>
Present(o) == o # <<>>
Get(o) == o[1]

----------------------------------------------------------------------------
(* Input domains *)

\* uploaded files, as [size in bytes, sniffed content type, extension]:
\* sizes lie around the two per-kind ceilings
UploadFiles ==
    { [size |-> 1, ctype |-> "image", ext |-> ".jpg"],
      [size |-> max_image_file_size_bytes, ctype |-> "image", ext |-> ".jpg"],
      [size |-> max_image_file_size_bytes + 1, ctype |-> "image", ext |-> ".jpg"],
      [size |-> max_image_file_size_bytes + 1, ctype |-> "video", ext |-> ".mp4"],
      [size |-> max_video_file_size_bytes + 1, ctype |-> "video", ext |-> ".mp4"],
      [size |-> 1, ctype |-> "image", ext |-> ".exe"],
      [size |-> 1, ctype |-> "video", ext |-> ".jpg"] }

\* detection timestamps: year and month as _generate_file_path formats
\* them, and strftime("%Y%m%d_%H%M%S")
DetectionTimes ==
    { [year |-> "2025", month |-> "01", str |-> "20250101_000005"] }

\* device labels, as the list re.findall(r'\d+', label) yields for them:
\* "Camera-07-backyard", "lobby"
DeviceNames == { <<7>>, <<>> }

\* detection sequence numbers handed to a store operation directly
DetectionSeqs == { 100, 200 }

\* names of source files handed to a store operation directly
SourceStems == { "photo" }

\* environment outcomes of one store call: where, if anywhere, it fails
CopyFaults == { "none", "validate_raises", "mkdir_raises", "copy_raises",
                "stat_raises" }
ToolFaults == { "none", "validate_raises", "mkdir_raises", "tool_fallback",
                "tool_nofile", "tool_raises", "stat_raises" }

----------------------------------------------------------------------------
(* Filesystem under the storage root *)

\* all non-empty prefixes of a path: what mkdir(parents=True) creates
Prefixes(p) == { SubSeq(p, 1, n) : n \in 1..Len(p) }

FileAt(fs, p) == CHOOSE f \in fs : f.path = p
Exists(fs, p) == \E f \in fs : f.path = p

\* writing to p replaces whatever file is at p
WriteFile(fs, p, f) == { g \in fs : g.path # p } \cup { [f EXCEPT !.path = p] }

----------------------------------------------------------------------------
(* Names *)

Pad2(n) == IF n < 10 THEN "0" \o ToString(n) ELSE ToString(n)

\* f"{n:03d}"
Pad3(n) == IF n < 10 THEN "00" \o ToString(n)
           ELSE IF n < 100 THEN "0" \o ToString(n) ELSE ToString(n)

\* f"{n:06d}"
Pad6(n) == IF n < 1000 THEN "000" \o Pad3(n)
           ELSE IF n < 10000 THEN "00" \o ToString(n)
           ELSE IF n < 100000 THEN "0" \o ToString(n) ELSE ToString(n)

\* the clock counts seconds from 2025-01-01 00:00:00
DateStr(t) == "202501" \o Pad2(1 + (t \div (24 * 60 * 60)))

HourMinSec(t) ==
    Pad2((t \div (60 * 60)) % 24) \o Pad2((t \div 60) % 60) \o Pad2(t % 60)

\* datetime.strftime("%Y%m%d_%H%M%S")
TimeStr(t) == DateStr(t) \o "_" \o HourMinSec(t)

\* datetime.strftime('%Y%m%d_%H%M%S_%f') of the instant [sec, micro]
TimeStrMicro(ts) == TimeStr(ts.sec) \o "_" \o Pad6(ts.micro)

\* a source file name handed to a store operation.  kind = "temp" is the
\* scratch name f"temp_{timestamp}_{safe_filename}" of save_detection_media
PlainName(stem, ext) ==
    [kind |-> "plain", stem |-> stem, ts |-> [sec |-> 0, micro |-> 0], ext |-> ext]
TempName(timestamp, stem, ext) ==
    [kind |-> "temp", stem |-> stem, ts |-> timestamp, ext |-> ext]

\* Path.stem
StemOf(name) ==
    IF name.kind = "temp"
    THEN "temp_" \o TimeStrMicro(name.ts) \o "_" \o name.stem
    ELSE name.stem

\* Path.name
NameStr(name) == StemOf(name) \o name.ext

\* "".join(c for c in Path(name).stem if c.isalnum() or c in "-_")[:15]
\* Fifteen characters of a scratch name are "temp_", the date, "_" and the
\* first digit of the hour; the stems of SourceStems are shorter and clean.
safe_original_name(name) ==
    IF name.kind = "temp"
    THEN "temp_" \o DateStr(name.ts.sec) \o "_"
             \o ToString(((name.ts.sec \div (60 * 60)) % 24) \div 10)
    ELSE name.stem

_get_default_extension(file_type) ==
    CASE file_type = "thumbnail" -> ".jpg"
      [] file_type = "image" -> ".jpg"
      [] file_type = "video" -> ".mp4"
      [] file_type = "video_clip" -> ".mp4"
      [] OTHER -> ".bin"

\* hashlib.sha256(hash_input.encode()).hexdigest()[:8], taken to be
\* injective on the hash input
security_hash(hash_input) == "h(" \o hash_input \o ")"

\* str.lower() on the suffixes of the names handed to _generate_filename
SuffixLower(ext) == IF ext = ".PNG" THEN ".png" ELSE ext

\* the name _generate_filename returns, as what precedes the extension it
\* appends and that extension; original_filename is an Optional name
\* (None or "" is <<>>), t is datetime.now() at the call
FilenameParts(detection_seq, file_type, detection_timestamp, original_filename, t) ==
    LET detection_time_str == detection_timestamp.str
        file_creation_time_str == TimeStr(t)
        file_extension ==
            IF Present(original_filename)
            THEN SuffixLower(Get(original_filename).ext)
            ELSE _get_default_extension(file_type)
        safe_name ==
            IF Present(original_filename)
            THEN safe_original_name(Get(original_filename))
            ELSE ""
        hash_input ==
            ToString(detection_seq) \o "_" \o detection_time_str \o "_"
              \o file_creation_time_str \o "_" \o file_type \o "_"
              \o safe_name \o "_" \o current_environment
        base_filename ==
            "det" \o Pad6(detection_seq) \o "_" \o detection_time_str \o "_"
              \o file_creation_time_str \o "_" \o security_hash(hash_input)
    IN  CASE file_type = "thumbnail" ->
               [stem |-> "thumb_" \o base_filename, ext |-> ".jpg"]
          [] file_type = "video_clip" ->
               [stem |-> "clip_" \o base_filename, ext |-> ".mp4"]
          [] file_type = "image" ->
               IF safe_name # ""
               THEN [stem |-> "img_" \o base_filename \o "_" \o safe_name,
                     ext |-> file_extension]
               ELSE [stem |-> "img_" \o base_filename, ext |-> file_extension]
          [] file_type = "video" ->
               IF safe_name # ""
               THEN [stem |-> "vid_" \o base_filename \o "_" \o safe_name,
                     ext |-> file_extension]
               ELSE [stem |-> "vid_" \o base_filename, ext |-> file_extension]
          [] OTHER -> [stem |-> "file_" \o base_filename, ext |-> file_extension]

\* the f-string: the name and its extension joined
JoinParts(parts) == parts.stem \o parts.ext

_generate_filename(detection_seq, file_type, detection_timestamp, original_filename, t) ==
    JoinParts(FilenameParts(detection_seq, file_type, detection_timestamp,
                            original_filename, t))

\* base / YYYY/MM / device_NNN
OrganizedDirectory(base_directory, device_id, detection_timestamp) ==
    <<base_directory, detection_timestamp.year, detection_timestamp.month,
      "device_" \o Pad3(device_id)>>

\* the directory, and the disk after mkdir(parents=True, exist_ok=True)
_generate_file_path(d, base_directory, device_id, detection_timestamp) ==
    LET organized_directory ==
            OrganizedDirectory(base_directory, device_id, detection_timestamp)
    IN  [dir |-> organized_directory,
         disk |-> [d EXCEPT !.dirs = @ \cup Prefixes(organized_directory)]]

----------------------------------------------------------------------------
(* Validation *)

ImageExtensions == { ".jpg" }
VideoExtensions == { ".mp4" }

\* variant: the extension is checked before the size
validate_file_comprehensive_ExtensionFirst(src, expected_type) ==
    LET limit == IF expected_type = "image" THEN max_image_file_size_bytes
                 ELSE max_video_file_size_bytes
        allowed == IF expected_type = "image" THEN ImageExtensions
                   ELSE VideoExtensions
    IN  IF ~src.exists THEN [valid |-> FALSE, message |-> "file not found"]
        ELSE IF src.name.ext \notin allowed
             THEN [valid |-> FALSE, message |-> "extension not allowed"]
        ELSE IF src.size > limit
             THEN [valid |-> FALSE, message |-> "file too large"]
        ELSE IF src.ctype # expected_type
             THEN [valid |-> FALSE, message |-> "content type mismatch"]
        ELSE [valid |-> TRUE, message |-> "ok"]

\* app.core.media.FileValidator.validate_file_comprehensive
validate_file_comprehensive(src, expected_type) ==
    LET limit == IF expected_type = "image" THEN max_image_file_size_bytes
                 ELSE max_video_file_size_bytes
        allowed == IF expected_type = "image" THEN ImageExtensions
                   ELSE VideoExtensions
    IN  IF ~src.exists THEN [valid |-> FALSE, message |-> "file not found"]
        ELSE IF src.size > limit
             THEN [valid |-> FALSE, message |-> "file too large"]
        ELSE IF src.name.ext \notin allowed
             THEN [valid |-> FALSE, message |-> "extension not allowed"]
        ELSE IF src.ctype # expected_type
             THEN [valid |-> FALSE, message |-> "content type mismatch"]
        ELSE [valid |-> TRUE, message |-> "ok"]

_validate_file(src, file_type) ==
    LET expected_type == IF file_type \in {"image", "thumbnail"} THEN "image"
                         ELSE "video"
        validation_result == validate_file_comprehensive(src, expected_type)
        file_size == src.size
    IN  IF ~validation_result.valid
        THEN [ok |-> FALSE, msg |-> validation_result.message]
        ELSE IF file_type \in {"image", "thumbnail"}
                  /\ file_size > max_image_file_size_bytes
             THEN [ok |-> FALSE, msg |-> "image file size exceeded"]
        ELSE IF file_type \in {"video", "video_clip"}
                  /\ file_size > max_video_file_size_bytes
             THEN [ok |-> FALSE, msg |-> "video file size exceeded"]
        ELSE [ok |-> TRUE, msg |-> "validation passed"]

----------------------------------------------------------------------------
(* FileStorageResult *)

FileStorageResult(success, file_url, file_path, file_size_bytes, error_message) ==
    [success |-> success, file_url |-> file_url, file_path |-> file_path,
     file_size_bytes |-> file_size_bytes, error_message |-> error_message]

\* variant: a failure result that carries no message
FailureResult_NoMessage(error_message) ==
    FileStorageResult(FALSE, NoneV, NoneV, NoneV, NoneV)

FailureResult(error_message) ==
    FileStorageResult(FALSE, NoneV, NoneV, NoneV, Some(error_message))

\* what a step of a store operation yields: a returned result, or an
\* exception on its way to the enclosing handler
Returned(result, d) == [raised |-> FALSE, exc |-> "", result |-> result, disk |-> d]
Raised(exc, d) ==
    [raised |-> TRUE, exc |-> exc, result |-> FailureResult(exc), disk |-> d]

\* variant: the URL is the relative path alone
DatabaseUrl_NoPrefix(prefix, relative_path) == relative_path

\* f"{static_file_url_prefix}/{relative_path.as_posix()}"
DatabaseUrl(prefix, relative_path) == prefix \o relative_path

\* destination_file_path.stat().st_size
StatSize(d, path) == (FileAt(d.files, path)).size

NewFile(d, size, how) == [path |-> <<>>, size |-> size, id |-> d.next, how |-> how]

\* shutil.copy2(source, destination)
CopyFile(d, src, destination, how) ==
    [d EXCEPT !.files = WriteFile(@, destination, NewFile(d, src.size, how)),
              !.next = @ + 1]

----------------------------------------------------------------------------
(* app.core.media: ImageProcessor.create_thumbnail and                     *)
(* VideoProcessor.extract_detection_clip.  Each transforms the source into *)
(* the destination; when the toolchain fails it copies the source to the   *)
(* destination unchanged and reports the failure.                          *)

ProcessedSize(size) == (size + 1) \div 2

RunToolchain(d, src, destination, fault) ==
    CASE fault = "tool_raises" ->
           [raised |-> TRUE, success |-> FALSE, error |-> "toolchain error", disk |-> d]
      [] fault = "tool_fallback" ->
           [raised |-> FALSE, success |-> FALSE, error |-> "toolchain failed",
            disk |-> CopyFile(d, src, destination, "fallback")]
      [] fault = "tool_nofile" ->
           [raised |-> FALSE, success |-> FALSE, error |-> "toolchain failed",
            disk |-> d]
      [] OTHER ->
           [raised |-> FALSE, success |-> TRUE, error |-> "",
            disk |-> [d EXCEPT
                        !.files = WriteFile(@, destination,
                                     NewFile(d, ProcessedSize(src.size), "processed")),
                        !.next = @ + 1]]

create_thumbnail(d, src, destination, fault) ==
    RunToolchain(d, src, destination, fault)

extract_detection_clip(d, src, destination, fault) ==
    RunToolchain(d, src, destination, fault)

----------------------------------------------------------------------------
(* Store operations.  d is the disk [dirs, files, next]; prefix is          *)
(* self.static_file_url_prefix; t is the clock; fault is the environment's *)
(* outcome for this call.                                                  *)

\* the success return of a store operation, from the URL computation on
StoreSuccess(d, prefix, destination_file_path, fault) ==
    LET database_url == DatabaseUrl(prefix, destination_file_path)
    IN  IF fault = "stat_raises" \/ ~Exists(d.files, destination_file_path)
        THEN Raised("stat failed", d)
        ELSE Returned(FileStorageResult(TRUE, Some(database_url),
                                        Some(destination_file_path),
                                        Some(StatSize(d, destination_file_path)),
                                        NoneV), d)

\* variant: the outcome of the validation is not looked at
ValidationGate_Skip(v, d, rest) == rest

\* if not is_valid: return FileStorageResult(success=False, ...)
\* rest is what the operation does with a valid source
ValidationGate(v, d, rest) ==
    IF ~v.ok THEN Returned(FailureResult(v.msg), d) ELSE rest

\* variant: the success flag of the toolchain is not looked at
ToolOutcome_IgnoreFlag(tool_result, prefix, destination_file_path, fault, message) ==
    IF tool_result.raised THEN Raised(tool_result.error, tool_result.disk)
    ELSE StoreSuccess(tool_result.disk, prefix, destination_file_path, fault)

\* what a store operation does with the result dict of the toolchain
ToolOutcome(tool_result, prefix, destination_file_path, fault, message) ==
    IF tool_result.raised THEN Raised(tool_result.error, tool_result.disk)
    ELSE IF ~tool_result.success
    THEN Returned(FailureResult(message \o ": " \o tool_result.error),
                  tool_result.disk)
    ELSE StoreSuccess(tool_result.disk, prefix, destination_file_path, fault)

\* the try block of store_image
StoreImageBody(d, prefix, src, device_id, detection_seq, detection_timestamp, t, fault) ==
    IF fault = "validate_raises" THEN Raised("validation error", d)
    ELSE
    ValidationGate(_validate_file(src, "image"), d,
        IF fault = "mkdir_raises" THEN Raised("mkdir failed", d)
        ELSE
        LET g == _generate_file_path(d, original_images_directory, device_id,
                                     detection_timestamp)
            filename == _generate_filename(detection_seq, "image",
                                           detection_timestamp, Some(src.name), t)
            destination_file_path == Append(g.dir, filename)
        IN  IF fault = "copy_raises" THEN Raised("copy failed", g.disk)
            ELSE StoreSuccess(CopyFile(g.disk, src, destination_file_path, "copy"),
                              prefix, destination_file_path, fault))

\* variant: no except clause, the exception leaves the operation
StoreHandler_Reraise(body, context) == body

\* except Exception as e: the exception becomes a failure result whose
\* message is the context followed by str(e); exc keeps the text of the
\* exception that was caught
StoreHandler(body, context) ==
    IF body.raised
    THEN [Returned(FailureResult(context \o ": " \o body.exc), body.disk)
            EXCEPT !.exc = body.exc]
    ELSE body

store_image(d, prefix, src, device_id, detection_seq, detection_timestamp, t, fault) ==
    StoreHandler(StoreImageBody(d, prefix, src, device_id, detection_seq,
                                detection_timestamp, t, fault),
                 "image store failed")

\* the try block of store_video_clip
StoreVideoClipBody(d, prefix, src, device_id, detection_seq, detection_timestamp, t, fault) ==
    IF fault = "validate_raises" THEN Raised("validation error", d)
    ELSE
    ValidationGate(_validate_file(src, "video"), d,
        IF fault = "mkdir_raises" THEN Raised("mkdir failed", d)
        ELSE
        LET g == _generate_file_path(d, video_clips_directory, device_id,
                                     detection_timestamp)
            clip_filename == _generate_filename(detection_seq, "video_clip",
                                                detection_timestamp,
                                                Some(src.name), t)
            destination_file_path == Append(g.dir, clip_filename)
            clip_result == extract_detection_clip(g.disk, src,
                                                  destination_file_path, fault)
        IN  ToolOutcome(clip_result, prefix, destination_file_path, fault,
                        "video clip extraction failed"))

store_video_clip(d, prefix, src, device_id, detection_seq, detection_timestamp, t, fault) ==
    StoreHandler(StoreVideoClipBody(d, prefix, src, device_id, detection_seq,
                                    detection_timestamp, t, fault),
                 "video clip store failed")

\* the try block of store_thumbnail
StoreThumbnailBody(d, prefix, src, device_id, detection_seq, detection_timestamp, t, fault) ==
    IF fault = "validate_raises" THEN Raised("validation error", d)
    ELSE
    ValidationGate(_validate_file(src, "image"), d,
        IF fault = "mkdir_raises" THEN Raised("mkdir failed", d)
        ELSE
        LET g == _generate_file_path(d, thumbnail_images_directory, device_id,
                                     detection_timestamp)
            thumbnail_filename == _generate_filename(detection_seq, "thumbnail",
                                                     detection_timestamp,
                                                     Some(src.name), t)
            destination_file_path == Append(g.dir, thumbnail_filename)
            thumbnail_result == create_thumbnail(g.disk, src,
                                                 destination_file_path, fault)
        IN  ToolOutcome(thumbnail_result, prefix, destination_file_path, fault,
                        "thumbnail creation failed"))

store_thumbnail(d, prefix, src, device_id, detection_seq, detection_timestamp, t, fault) ==
    StoreHandler(StoreThumbnailBody(d, prefix, src, device_id, detection_seq,
                                    detection_timestamp, t, fault),
                 "thumbnail store failed")

----------------------------------------------------------------------------
(* save_detection_media *)

_extract_device_id(device_name) ==
    IF device_name # <<>> /\ 1 <= device_name[1] /\ device_name[1] <= 9999
    THEN device_name[1]
    ELSE 1

ImageFamily == { "image", "jpg", "jpeg", "png", "bmp", "webp", "tiff" }
VideoFamily == { "video", "mp4", "mov", "avi", "mkv", "webm", "video_clip" }

\* str.lower() on the file types of FileTypes
Lower(file_type) == IF file_type = "MP4" THEN "mp4" ELSE file_type

\* result_urls before any store call
NoUrls == [image_url |-> NoneV, thumbnail_url |-> NoneV, video_url |-> NoneV]

\* the dict _create_error_response builds
_create_error_response(error_message, file_type) ==
    [success |-> FALSE, error |-> Some(error_message), file_type |-> file_type,
     detection_id |-> NoneV, device_id |-> NoneV, generated_files |-> NoneV,
     image_url |-> NoneV, thumbnail_url |-> NoneV, video_url |-> NoneV,
     warnings |-> <<>>]

\* variant: generated_files counts the store calls made, failed ones too
SuccessResponse_CountsAttempts(detection_seq, device_id, file_type, result_urls, processing_errors) ==
    [success |-> TRUE, error |-> NoneV, file_type |-> file_type,
     detection_id |-> Some(detection_seq), device_id |-> Some(device_id),
     generated_files |->
         Some(Cardinality({ k \in DOMAIN result_urls : Present(result_urls[k]) })
                + Len(processing_errors)),
     image_url |-> result_urls.image_url,
     thumbnail_url |-> result_urls.thumbnail_url,
     video_url |-> result_urls.video_url,
     warnings |-> processing_errors]

\* the success_response dict; result_urls holds the three optional URLs
SuccessResponse(detection_seq, device_id, file_type, result_urls, processing_errors) ==
    [success |-> TRUE, error |-> NoneV, file_type |-> file_type,
     detection_id |-> Some(detection_seq), device_id |-> Some(device_id),
     generated_files |->
         Some(Cardinality({ k \in DOMAIN result_urls : Present(result_urls[k]) })),
     image_url |-> result_urls.image_url,
     thumbnail_url |-> result_urls.thumbnail_url,
     video_url |-> result_urls.video_url,
     warnings |-> processing_errors]

\* what one call of save_detection_media leaves behind; the three results
\* are those of the store calls it made (None: not called)
IngestReturn(response, d, scr, temp, image_result, thumbnail_result, video_result) ==
    [response |-> response, disk |-> d, scratch |-> scr, temp |-> temp,
     image_result |-> image_result, thumbnail_result |-> thumbnail_result,
     video_result |-> video_result]

\* variant: a failed thumbnail is not recorded
RecordThumbnail_Silent(result_urls, processing_errors, thumbnail_result) ==
    [urls |-> [result_urls EXCEPT !.thumbnail_url = thumbnail_result.file_url],
     errors |-> processing_errors]

\* lines 482-486: the thumbnail's URL, or a processing error
RecordThumbnail(result_urls, processing_errors, thumbnail_result) ==
    IF thumbnail_result.success
    THEN [urls |-> [result_urls EXCEPT !.thumbnail_url = thumbnail_result.file_url],
          errors |-> processing_errors]
    ELSE [urls |-> result_urls,
          errors |-> Append(processing_errors,
                            "thumbnail creation failed: "
                              \o Get(thumbnail_result.error_message))]

\* lines 509-539: cleanup of the scratch file, then the success response
IngestFinish(d, scr, temp_file_path, detection_seq, device_id, file_type, result_urls, processing_errors, ifault, image_result, thumbnail_result, video_result) ==
    IngestReturn(SuccessResponse(detection_seq, device_id, file_type,
                                 result_urls, processing_errors),
                 d,
                 IF ifault = "unlink_raises" THEN scr
                 ELSE scr \ {temp_file_path},
                 Some(temp_file_path), image_result, thumbnail_result,
                 video_result)

\* lines 509-539 for an image: rec is what RecordThumbnail made of the
\* thumbnail's outcome
IngestRecorded(c, image_result, thumbnail, rec) ==
    IngestFinish(thumbnail.disk, c.scr1, c.temp_file_path, c.detection_seq,
                 c.device_id, c.file_type, rec.urls, rec.errors, c.ifault,
                 Some(image_result), Some(thumbnail.result), NoneV)

\* lines 476-486: the image is stored; thumbnail is the outcome of
\* store_thumbnail
IngestThumbnail(c, image_result, thumbnail) ==
    IngestRecorded(c, image_result, thumbnail,
        RecordThumbnail([NoUrls EXCEPT !.image_url = image_result.file_url],
                        <<>>, thumbnail.result))

\* lines 473-491: image is the outcome of store_image
IngestImage(c, image) ==
    IF image.result.success
    THEN IngestThumbnail(c, image.result,
             store_thumbnail(image.disk, c.prefix, c.src, c.device_id,
                             c.detection_seq, c.detection_time, c.sec, c.fault2))
    ELSE IngestReturn(
             _create_error_response("image save failed: "
                                      \o Get(image.result.error_message),
                                    c.file_type),
             image.disk, c.scr1, Some(c.temp_file_path),
             Some(image.result), NoneV, NoneV)

\* lines 495-503: video is the outcome of store_video_clip
IngestVideo(c, video) ==
    IF video.result.success
    THEN IngestFinish(video.disk, c.scr1, c.temp_file_path, c.detection_seq,
                      c.device_id, c.file_type,
                      [NoUrls EXCEPT !.video_url = video.result.file_url],
                      <<>>, c.ifault, NoneV, NoneV, Some(video.result))
    ELSE IngestReturn(
             _create_error_response("video save failed: "
                                      \o Get(video.result.error_message),
                                    c.file_type),
             video.disk, c.scr1, Some(c.temp_file_path), NoneV, NoneV,
             Some(video.result))

\* lines 448-465: the scratch file, the device id and the detection
\* sequence number of one ingest
IngestContext(scr, prefix, content, original_filename, device_name, detection_time, file_type, clock, ifault, fault2) ==
    [scr1 |-> scr \cup {NameStr(TempName(clock, original_filename.stem,
                                         original_filename.ext))},
     temp_file_path |-> NameStr(TempName(clock, original_filename.stem,
                                         original_filename.ext)),
     src |-> [name |-> TempName(clock, original_filename.stem,
                                original_filename.ext),
              exists |-> TRUE, size |-> content.size, ctype |-> content.ctype],
     device_id |-> _extract_device_id(device_name),
     \* int(datetime.now().timestamp() * 1000000) % 999999
     detection_seq |-> (clock.sec * 1000000 + clock.micro) % 999999,
     detection_time |-> detection_time, file_type |-> file_type,
     sec |-> clock.sec, prefix |-> prefix, ifault |-> ifault,
     fault2 |-> fault2]

\* the body of save_detection_media from the store calls on
IngestStores(d, scr, c, fault1) ==
    IF c.ifault = "tempdir_raises"
    THEN \* except: temp_file_path is not bound yet
         IngestReturn(_create_error_response("media save exception: mkdir failed",
                                             c.file_type),
                      d, scr, NoneV, NoneV, NoneV, NoneV)
    ELSE IF c.ifault = "write_raises"
    THEN \* except: the scratch file exists and is unlinked
         IngestReturn(_create_error_response("media save exception: write failed",
                                             c.file_type),
                      d, c.scr1 \ {c.temp_file_path}, Some(c.temp_file_path),
                      NoneV, NoneV, NoneV)
    ELSE IF Lower(c.file_type) \in ImageFamily
    THEN IngestImage(c, store_image(d, c.prefix, c.src, c.device_id,
                                    c.detection_seq, c.detection_time, c.sec,
                                    fault1))
    ELSE IF Lower(c.file_type) \in VideoFamily
    THEN IngestVideo(c, store_video_clip(d, c.prefix, c.src, c.device_id,
                                         c.detection_seq, c.detection_time,
                                         c.sec, fault1))
    ELSE IngestReturn(_create_error_response("unsupported file type: "
                                               \o c.file_type, c.file_type),
                      d, c.scr1, Some(c.temp_file_path), NoneV, NoneV, NoneV)

\* content is [size, ctype]; original_filename is [stem, ext];
\* clock is [sec, micro]; ifault, fault1 and fault2 are the environment's
\* outcomes for the scratch file, the primary store and the thumbnail store
save_detection_media(d, scr, prefix, content, original_filename, device_name, detection_time, file_type, clock, ifault, fault1, fault2) ==
    IngestStores(d, scr,
                 IngestContext(scr, prefix, content, original_filename,
                               device_name, detection_time, file_type, clock,
                               ifault, fault2),
                 fault1)

----------------------------------------------------------------------------
(* State *)

StaticPrefixes == { <<"uploads">>, <<"static", "media">> }

\* detection_result rows that exist at start, without media URLs
DetectionIds == { 1, 2 }

FileTypes == { "image", "MP4", "thumbnail" }

DeviceIds == { 1, 7 }

\* microseconds at which the clock is read within one second
Micros == { 0, 999999 }

Disk == [dirs |-> dirs, files |-> files, next |-> next_file_id]

NoCall ==
    [op |-> "none", raised |-> FALSE, result |-> NoneV,
     src |-> NoneV, fault |-> "none",
     response |-> NoneV, temp |-> NoneV, ifault |-> "none",
     image_result |-> NoneV, thumbnail_result |-> NoneV, video_result |-> NoneV,
     quarantine_result |-> NoneV,
     user_id |-> 0, detection_id |-> NoneV, afault |-> "none",
     exc |-> "", detail |-> NoneV, list |-> NoneV,
     media_type |-> NoneV, pre_rows |-> <<>>, pre_audit |-> <<>>,
     inputs |-> <<>>, outputs |-> <<>>,
     pre_dirs |-> {}, pre_files |-> {}, pre_scratch |-> {}, post_files |-> {}]

\* _ensure_directories_exist has run: FileStorageManager() is constructed
Init ==
    /\ file_storage = "constructed"
    /\ static_file_url_prefix \in StaticPrefixes
    /\ now = 0
    /\ dirs = required_directories
    /\ files = {}
    /\ scratch = {}
    /\ db = [i \in DetectionIds |-> Some(NoUrls)]
    /\ audit = <<>>
    /\ reqs = {}
    /\ done = {}
    /\ next_file_id = 1
    /\ micro = -1
    /\ nfaults = 0
    /\ nops = 0
    /\ last = NoCall

Sources ==
    { [name |-> PlainName(st, u.ext), exists |-> TRUE, size |-> u.size,
       ctype |-> u.ctype] : st \in SourceStems, u \in UploadFiles }
    \cup
    { [name |-> PlainName(st, ".jpg"), exists |-> FALSE, size |-> 0,
       ctype |-> "image"] : st \in SourceStems }

\* the record of a direct call of a store operation
StoreCall(op, ret, src, fault) ==
    [NoCall EXCEPT !.op = op, !.raised = ret.raised, !.exc = ret.exc,
                   !.result = Some(ret.result),
                   !.src = Some(src), !.fault = fault,
                   !.pre_dirs = dirs, !.pre_files = files,
                   !.pre_scratch = scratch]

ApplyStore(op, ret, src, fault) ==
    /\ dirs' = ret.disk.dirs
    /\ files' = ret.disk.files
    /\ next_file_id' = ret.disk.next
    /\ last' = StoreCall(op, ret, src, fault)
    /\ nops' = nops + 1
    /\ UNCHANGED <<file_storage, static_file_url_prefix, now, scratch, db, audit, reqs, done,
                   micro, nfaults>>

StoreImageCall ==
    /\ nops < MaxOps
    /\ \E src \in Sources, device_id \in DeviceIds, seq \in DetectionSeqs,
          ts \in DetectionTimes,
          fault \in CopyFaults :
          ApplyStore("store_image",
                     store_image(Disk, static_file_url_prefix, src, device_id,
                                 seq, ts, now, fault),
                     src, fault)

StoreThumbnailCall ==
    /\ nops < MaxOps
    /\ \E src \in Sources, device_id \in DeviceIds, seq \in DetectionSeqs,
          ts \in DetectionTimes, fault \in ToolFaults :
          ApplyStore("store_thumbnail",
                     store_thumbnail(Disk, static_file_url_prefix, src,
                                     device_id, seq, ts, now, fault),
                     src, fault)

StoreVideoClipCall ==
    /\ nops < MaxOps
    /\ \E src \in Sources, device_id \in DeviceIds, seq \in DetectionSeqs,
          ts \in DetectionTimes, fault \in ToolFaults :
          ApplyStore("store_video_clip",
                     store_video_clip(Disk, static_file_url_prefix, src,
                                      device_id, seq, ts, now, fault),
                     src, fault)

\* the faults the environment can choose for one ingest of file_type:
\* <<ifault, fault1, fault2>>.  The scratch file is written before any
\* store call, the thumbnail is stored only after the image, and the
\* scratch file is unlinked only after the stores succeeded.
IngestFaultChoices(file_type) ==
    LET primary == IF Lower(file_type) \in ImageFamily THEN CopyFaults
                   ELSE IF Lower(file_type) \in VideoFamily THEN ToolFaults
                   ELSE {"none"}
        secondary == IF Lower(file_type) \in ImageFamily THEN ToolFaults
                     ELSE {"none"}
    IN  { <<i, "none", "none">> : i \in {"tempdir_raises", "write_raises"} }
        \cup { <<"none", f1, "none">> : f1 \in primary }
        \cup { <<i, "none", f2>> : i \in {"none", "unlink_raises"},
                                   f2 \in secondary }

\* the record of a call of save_detection_media
IngestCall(ret, ifault, fault) ==
    [NoCall EXCEPT !.op = "save_detection_media",
                   !.response = Some(ret.response),
                   !.temp = ret.temp, !.ifault = ifault, !.fault = fault,
                   !.image_result = ret.image_result,
                   !.thumbnail_result = ret.thumbnail_result,
                   !.video_result = ret.video_result,
                   !.pre_dirs = dirs, !.pre_files = files,
                   !.pre_scratch = scratch]

\* the disk and the scratch directory after a call that returned ret
ApplyIngest(ret, m, ifault, fault) ==
    /\ dirs' = ret.disk.dirs
    /\ files' = ret.disk.files
    /\ next_file_id' = ret.disk.next
    /\ scratch' = ret.scratch
    /\ last' = IngestCall(ret, ifault, fault)
    /\ micro' = m

SaveDetectionMediaCall ==
    /\ nops < MaxOps
    /\ \E u \in UploadFiles, device_name \in DeviceNames,
          detection_time \in DetectionTimes, file_type \in FileTypes,
          m \in { x \in Micros : x > micro } :
       \E f \in IngestFaultChoices(file_type) :
          ApplyIngest(save_detection_media(
                          Disk, scratch, static_file_url_prefix,
                          [size |-> u.size, ctype |-> u.ctype],
                          [stem |-> "upload", ext |-> u.ext],
                          device_name, detection_time, file_type,
                          [sec |-> now, micro |-> m], f[1], f[2], f[3]),
                      m, f[1], f[2])
    /\ nops' = nops + 1
    /\ UNCHANGED <<file_storage, static_file_url_prefix, now, db, audit, reqs, done, nfaults>>

----------------------------------------------------------------------------
(* UserRepository *)

\* tbl_user_roles: the role_seq of each user that exists
UserRoleSeq == (1 :> 10) @@ (2 :> 11)

UserIds == { 1, 2, 3 }

get_user_by_id(user_id) ==
    IF user_id \in DOMAIN UserRoleSeq THEN Some(user_id) ELSE NoneV

get_user_role_seq(user_id) ==
    IF user_id \in DOMAIN UserRoleSeq THEN Some(UserRoleSeq[user_id]) ELSE NoneV

get_user_permissions(user_id) ==
    LET role_seq == get_user_role_seq(user_id)
    IN  IF ~Present(role_seq) THEN { "read" }
        ELSE IF Get(role_seq) = 10 THEN { "read", "upload" }
        ELSE IF Get(role_seq) \in { 11, 13 }
             THEN { "read", "upload", "delete", "admin" }
        ELSE { "read" }

\* variant: every user may delete
can_delete_media_Always(user_id) == TRUE

can_delete_media(user_id) == "delete" \in get_user_permissions(user_id)

----------------------------------------------------------------------------
(* MediaRepository.  rows is the detection_result table: id -> Optional row *)

HasRow(rows, detection_id) ==
    detection_id \in DOMAIN rows /\ Present(rows[detection_id])

get_detection_media_by_id(rows, detection_id) ==
    IF ~HasRow(rows, detection_id) THEN NoneV
    ELSE LET detection_result == Get(rows[detection_id])
         IN  Some([detection_id |-> detection_id,
                   original_image |-> [url |-> detection_result.image_url],
                   thumbnail |-> [url |-> detection_result.thumbnail_url],
                   video_clip |-> [url |-> detection_result.video_url]])

\* variant: the three fields are assigned whatever the arguments are
update_detection_media_urls_AssignsAll(rows, detection_id, image_url, thumbnail_url, video_url) ==
    IF ~HasRow(rows, detection_id) THEN [ok |-> FALSE, rows |-> rows]
    ELSE [ok |-> TRUE,
          rows |-> [rows EXCEPT ![detection_id] =
                      Some([Get(rows[detection_id]) EXCEPT
                              !.image_url = image_url,
                              !.thumbnail_url = thumbnail_url,
                              !.video_url = video_url])]]

\* the three URL arguments are Optional; returns the table and the bool
update_detection_media_urls(rows, detection_id, image_url, thumbnail_url, video_url) ==
    IF ~HasRow(rows, detection_id) THEN [ok |-> FALSE, rows |-> rows]
    ELSE LET r0 == Get(rows[detection_id])
             r1 == IF Present(image_url)
                   THEN [r0 EXCEPT !.image_url = image_url] ELSE r0
             r2 == IF Present(thumbnail_url)
                   THEN [r1 EXCEPT !.thumbnail_url = thumbnail_url] ELSE r1
             r3 == IF Present(video_url)
                   THEN [r2 EXCEPT !.video_url = video_url] ELSE r2
             update == Present(image_url) \/ Present(thumbnail_url)
                         \/ Present(video_url)
         IN  IF update
             THEN [ok |-> TRUE, rows |-> [rows EXCEPT ![detection_id] = Some(r3)]]
             ELSE [ok |-> FALSE, rows |-> rows]

delete_detection_media(rows, detection_id) ==
    IF ~HasRow(rows, detection_id) THEN [ok |-> FALSE, rows |-> rows]
    ELSE [ok |-> TRUE, rows |-> [rows EXCEPT ![detection_id] = NoneV]]

----------------------------------------------------------------------------
(* MediaService._move_files_to_quarantine *)

\* environment outcomes of one quarantine call: the mkdir of the dated
\* directory raises, or the rename of one media type raises
QuarantineFaults == { "none", "mkdir_raises", "rename_thumbnail_raises" }

\* Path.rename: the file at source_path is at destination afterwards, in
\* place of whatever file was there
RenameFile(fs, source_path, destination) ==
    { g \in fs : g.path # source_path /\ g.path # destination }
      \cup { [FileAt(fs, source_path) EXCEPT !.path = destination] }

\* file_url.startswith("/uploads/")
StartsWithUploads(file_url) == Len(file_url) > 1 /\ file_url[1] = "uploads"

\* Path(settings.upload_base_directory) / file_url[9:]
QuarantineSource(file_url) == Tail(file_url)

\* lines 383-389: the file at source_path is renamed into user_directory;
\* made is the loop's state after the mkdir of user_directory
QuarantineMove(made, source_path, user_directory, media_type, qfault) ==
    IF qfault = "rename_" \o media_type \o "_raises"
    THEN [made EXCEPT !.raised = TRUE]
    ELSE [made EXCEPT
            !.disk.files =
                RenameFile(@, source_path,
                           Append(user_directory, source_path[Len(source_path)])),
            !.moved_files = @ + 1,
            !.file_paths =
                Append(@, Append(user_directory, source_path[Len(source_path)]))]

\* one iteration of the for loop over the media types; acc is [raised,
\* disk, moved_files, file_paths], raised once an exception has left the loop
QuarantineStep(acc, media_info, user_directory, media_type, qfault) ==
    IF acc.raised THEN acc
    ELSE IF /\ Present(media_info[media_type].url)
            /\ StartsWithUploads(Get(media_info[media_type].url))
            /\ Exists(acc.disk.files,
                      QuarantineSource(Get(media_info[media_type].url)))
    THEN QuarantineMove([acc EXCEPT !.disk.dirs = @ \cup Prefixes(user_directory)],
                        QuarantineSource(Get(media_info[media_type].url)),
                        user_directory, media_type, qfault)
    ELSE acc

\* for media_type in ["original_image", "thumbnail", "video_clip"]
QuarantineLoop(acc, media_info, user_directory, qfault) ==
    QuarantineStep(
        QuarantineStep(
            QuarantineStep(acc, media_info, user_directory, "original_image",
                           qfault),
            media_info, user_directory, "thumbnail", qfault),
        media_info, user_directory, "video_clip", qfault)

QuarantineError ==
    [success |-> FALSE, file_count |-> 0, quarantine_path |-> NoneV,
     file_paths |-> <<>>, error |-> Some("quarantine failed")]

\* lines 393-406: the dict returned once the loop has ended
QuarantineResult(loop, user_directory) ==
    IF loop.raised THEN [result |-> QuarantineError, disk |-> loop.disk]
    ELSE [result |-> [success |-> TRUE, file_count |-> loop.moved_files,
                      quarantine_path |-> Some(user_directory),
                      file_paths |-> loop.file_paths, error |-> NoneV],
          disk |-> loop.disk]

\* quarantine / YYYYMMDD
QuarantineBase(t) == <<"quarantine", DateStr(t)>>

\* quarantine / YYYYMMDD / user_<id>
UserDirectory(user_id, t) == Append(QuarantineBase(t), "user_" \o ToString(user_id))

\* t is datetime.now(); returns the result dict and the disk
_move_files_to_quarantine(d, media_info, user_id, t, qfault) ==
    IF qfault = "mkdir_raises" THEN [result |-> QuarantineError, disk |-> d]
    ELSE QuarantineResult(
             QuarantineLoop([raised |-> FALSE,
                             disk |-> [d EXCEPT !.dirs = @ \cup
                                           Prefixes(QuarantineBase(t))],
                             moved_files |-> 0, file_paths |-> <<>>],
                            media_info, UserDirectory(user_id, t), qfault),
             UserDirectory(user_id, t))

----------------------------------------------------------------------------
(* MediaService: requests, results and the audit log *)

\* environment outcomes of one write of the audit log
AuditFaults == { "none", "write_raises" }

\* the outcomes the environment may still choose from
Allowed(faults) == { f \in faults : f = "none" \/ nfaults < MaxFaults }
Met(fault) == IF fault = "none" THEN nfaults ELSE nfaults + 1

\* delete requests: <<user_id, detection_id>>
DeleteRequests == { <<2, 1>>, <<2, 2>>, <<1, 1>> }

\* the try block of _log_media_action: one line appended to the log file,
\* or the exception of the write
LogEntryWrite(log, user_id, action, target_id, file_moved, t, afault) ==
    IF afault = "write_raises" THEN [raised |-> TRUE, log |-> log]
    ELSE [raised |-> FALSE,
          log |-> Append(log, [timestamp |-> t, user_id |-> user_id,
                               action |-> action, target_id |-> target_id,
                               file_moved |-> file_moved,
                               environment |-> current_environment])]

\* variant: no except clause, the exception of the write leaves the method
AuditHandler_Reraise(body) == body

\* except Exception as e: the error is logged and dropped
AuditHandler(body) == [raised |-> FALSE, log |-> body.log]

_log_media_action(log, user_id, action, target_id, file_moved, t, afault) ==
    AuditHandler(LogEntryWrite(log, user_id, action, target_id, file_moved, t,
                               afault))

DeleteResult(success, message, deleted_detection_id, deleted_files_count, error_code) ==
    [success |-> success, message |-> message,
     deleted_detection_id |-> deleted_detection_id,
     deleted_files_count |-> deleted_files_count, error_code |-> error_code]

UploadResponse(success, message, detection_media, error_code) ==
    [success |-> success, message |-> message,
     detection_media |-> detection_media, error_code |-> error_code]

\* a request at one of its await points
Request(id, op, pc, user_id, detection_id, media_info, quarantine_result, storage_result) ==
    [id |-> id, op |-> op, pc |-> pc, user_id |-> user_id,
     detection_id |-> detection_id, media_info |-> media_info,
     quarantine_result |-> quarantine_result,
     storage_result |-> storage_result,
     \* kept for the properties: the files its quarantine step found at the
     \* URLs of media_info, and those it moved, by identity
     existed |-> {}, moved |-> {}]

\* a request that has returned; audit_write is the outcome of its write of
\* the audit log, "not_called" when it returned before that
Completed(r, delete_result, upload_response, audit_write) ==
    [id |-> r.id, op |-> r.op, user_id |-> r.user_id,
     detection_id |-> r.detection_id, media_info |-> r.media_info,
     quarantine_result |-> r.quarantine_result,
     storage_result |-> r.storage_result,
     existed |-> r.existed, moved |-> r.moved,
     delete_result |-> delete_result, upload_response |-> upload_response,
     audit_write |-> audit_write]

NextRequestId == Cardinality(reqs) + Cardinality(done) + 1

Started(op) == Cardinality({ r \in reqs \cup done : r.op = op })

\* the requests started so far: uploads, deletes and views
StartedRequests == Cardinality(reqs) + Cardinality(done) + nops

\* upload requests: [user_id, file, file_type, device_name, detection_id,
\* fault1, fault2]; file_type is a value of MediaType
UploadRequests ==
    LET image == [size |-> 1, ctype |-> "image", ext |-> ".jpg"]
        large == [size |-> max_image_file_size_bytes + 1, ctype |-> "image",
                  ext |-> ".jpg"]
        video == [size |-> max_image_file_size_bytes + 1, ctype |-> "video",
                  ext |-> ".mp4"]
        R(user_id, file, file_type, device_name, detection_id, fault1, fault2) ==
            [user_id |-> user_id, file |-> file, file_type |-> file_type,
             device_name |-> device_name, detection_id |-> detection_id,
             fault1 |-> fault1, fault2 |-> fault2]
    IN  { R(2, image, "image", <<7>>, Some(1), "none", "none"),
          R(2, image, "image", <<>>, Some(2), "none", "none"),
          R(2, video, "video_clip", <<7>>, Some(1), "none", "none"),
          R(3, image, "image", <<7>>, Some(1), "none", "none"),
          R(2, large, "image", <<7>>, Some(1), "none", "none") }

\* lines 58-61: the user does not exist
UploadDenied(r) ==
    /\ done' = done \cup
         { Completed(r, NoneV,
               Some(UploadResponse(FALSE,
                   "Insufficient permissions for file upload",
                   NoneV, Some("INSUFFICIENT_PERMISSIONS"))),
               "not_called") }
    /\ UNCHANGED <<dirs, files, next_file_id, scratch, reqs, last, micro>>

\* lines 68-83: ret is what save_detection_media returned
UploadStored(r, ret, m, fault1) ==
    /\ ApplyIngest(ret, m, "none", fault1)
    /\ IF ~ret.response.success
       THEN /\ done' = done \cup
                 { Completed([r EXCEPT !.storage_result = Some(ret.response)],
                       NoneV,
                       Some(UploadResponse(FALSE,
                           "File storage error occurred",
                           NoneV, Some("FILE_STORAGE_ERROR"))),
                       "not_called") }
            /\ reqs' = reqs
       ELSE /\ reqs' = reqs \cup
                 { [r EXCEPT !.storage_result = Some(ret.response)] }
            /\ done' = done

\* upload_media_file up to the await of update_detection_media_urls
UploadMediaFileStore ==
    /\ Started("upload") < MaxUploads
    /\ Cardinality(reqs) < MaxInFlight
    /\ StartedRequests < MaxRequests
    /\ \E q \in UploadRequests, m \in { x \in Micros : x > micro } :
          IF ~Present(get_user_by_id(q.user_id))
          THEN UploadDenied(Request(NextRequestId, "upload", "db_update",
                                    q.user_id, q.detection_id, NoneV, NoneV,
                                    NoneV))
          ELSE UploadStored(
                   Request(NextRequestId, "upload", "db_update", q.user_id,
                           q.detection_id, NoneV, NoneV, NoneV),
                   save_detection_media(
                       Disk, scratch, static_file_url_prefix,
                       [size |-> q.file.size, ctype |-> q.file.ctype],
                       [stem |-> "upload", ext |-> q.file.ext],
                       q.device_name, CHOOSE dt \in DetectionTimes : TRUE,
                       q.file_type, [sec |-> now, micro |-> m],
                       "none", q.fault1, q.fault2),
                   m, q.fault1)
    /\ UNCHANGED <<file_storage, static_file_url_prefix, now, db, audit, nfaults, nops>>

\* lines 130-141: an exception in the try block of upload_media_file
UploadInternalError ==
    UploadResponse(FALSE, "An error occurred during file upload", NoneV,
                   Some("INTERNAL_SERVER_ERROR"))

\* lines 100-129: the row is updated; logged is what _log_media_action
\* left, detection_media what get_detection_media_by_id returned
UploadLogged(r, logged, detection_media, afault) ==
    /\ audit' = logged.log
    /\ done' = done \cup
         { Completed(r, NoneV,
               Some(IF logged.raised THEN UploadInternalError
                    ELSE UploadResponse(TRUE, "File upload completed successfully",
                                        detection_media, NoneV)),
               afault) }

\* lines 85-129: upd is what update_detection_media_urls returned
UploadUpdated(r, upd, lookup_id, afault) ==
    IF ~upd.ok
    THEN /\ afault = "none"
         /\ done' = done \cup
              { Completed(r, NoneV,
                    Some(UploadResponse(FALSE, "Database update failed",
                                        NoneV, Some("DATABASE_UPDATE_ERROR"))),
                    "not_called") }
         /\ UNCHANGED <<db, audit>>
    ELSE /\ db' = upd.rows
         /\ UploadLogged(r,
                _log_media_action(audit, r.user_id, "upload", r.detection_id,
                                  NoneV, now, afault),
                get_detection_media_by_id(upd.rows, lookup_id), afault)

\* upload_media_file from update_detection_media_urls to its return
UploadMediaFileRecord ==
    \E r \in reqs, afault \in Allowed(AuditFaults) :
        /\ r.op = "upload" /\ r.pc = "db_update"
        /\ UploadUpdated(r,
               IF Present(r.detection_id)
               THEN update_detection_media_urls(
                        db, Get(r.detection_id),
                        Get(r.storage_result).image_url,
                        Get(r.storage_result).thumbnail_url,
                        Get(r.storage_result).video_url)
               ELSE [ok |-> TRUE, rows |-> db],
               IF Present(r.detection_id) THEN Get(r.detection_id)
               ELSE Get(Get(r.storage_result).detection_id),
               afault)
        /\ reqs' = reqs \ { r }
        /\ nfaults' = Met(afault)
        /\ UNCHANGED <<file_storage, static_file_url_prefix, now, dirs, files, scratch,
                       next_file_id, micro, nops, last>>

\* delete_media up to the return of get_detection_media_by_id
DeleteMediaLookup ==
    /\ Started("delete") < MaxDeletes
    /\ Cardinality(reqs) < MaxInFlight
    /\ StartedRequests < MaxRequests
    /\ \E user_id \in UserIds, detection_id \in DetectionIds :
          <<user_id, detection_id>> \in DeleteRequests /\
          LET r == Request(NextRequestId, "delete", "quarantine", user_id,
                           Some(detection_id), NoneV, NoneV, NoneV)
              media_info == get_detection_media_by_id(db, detection_id)
          IN  IF ~can_delete_media(user_id)
              THEN /\ done' = done \cup
                        { Completed(r,
                              Some(DeleteResult(FALSE,
                                  "Insufficient permissions for media deletion",
                                  NoneV, 0, Some("INSUFFICIENT_PERMISSIONS"))),
                              NoneV, "not_called") }
                   /\ reqs' = reqs
              ELSE IF ~Present(media_info)
              THEN /\ done' = done \cup
                        { Completed(r,
                              Some(DeleteResult(FALSE,
                                  "Media not found for deletion",
                                  NoneV, 0, Some("MEDIA_NOT_FOUND"))),
                              NoneV, "not_called") }
                   /\ reqs' = reqs
              ELSE /\ reqs' = reqs \cup { [r EXCEPT !.media_info = media_info] }
                   /\ done' = done
    /\ UNCHANGED <<file_storage, static_file_url_prefix, now, dirs, files, scratch, db,
                   audit, next_file_id, micro, nfaults, nops, last>>

\* the record of a call of _move_files_to_quarantine
QuarantineCall(q, qfault) ==
    [NoCall EXCEPT !.op = "_move_files_to_quarantine", !.fault = qfault,
                   !.quarantine_result = Some(q.result),
                   !.pre_dirs = dirs, !.pre_files = files,
                   !.pre_scratch = scratch, !.post_files = q.disk.files]

\* the identities of the files of fs at the URLs of media_info
ArtifactIds(fs, media_info) ==
    { f.id : f \in { g \in fs :
        \E media_type \in {"original_image", "thumbnail", "video_clip"} :
            /\ Present(media_info[media_type].url)
            /\ StartsWithUploads(Get(media_info[media_type].url))
            /\ g.path = QuarantineSource(Get(media_info[media_type].url)) } }

\* the identities of the files of fs under the quarantine area
QuarantinedIds(fs) == { f.id : f \in { g \in fs : g.path[1] = "quarantine" } }

\* line 240: q is what _move_files_to_quarantine returned for request r
ApplyQuarantine(r, q, qfault) ==
    /\ dirs' = q.disk.dirs
    /\ files' = q.disk.files
    /\ reqs' = (reqs \ { r }) \cup
          { [r EXCEPT !.pc = "db_delete", !.quarantine_result = Some(q.result),
                      !.existed = ArtifactIds(files, Get(r.media_info)),
                      !.moved = ArtifactIds(files, Get(r.media_info))
                                  \cap QuarantinedIds(q.disk.files)] }
    /\ last' = QuarantineCall(q, qfault)

\* delete_media: _move_files_to_quarantine, up to the await of
\* delete_detection_media
DeleteMediaQuarantine ==
    \E r \in reqs, qfault \in Allowed(QuarantineFaults) :
        /\ r.op = "delete" /\ r.pc = "quarantine"
        /\ ApplyQuarantine(r, _move_files_to_quarantine(Disk, Get(r.media_info),
                                                        r.user_id, now, qfault),
                           qfault)
        /\ nfaults' = Met(qfault)
        /\ UNCHANGED <<file_storage, static_file_url_prefix, now, scratch, db, audit, done,
                       next_file_id, micro, nops>>

\* lines 275-284: an exception in the try block of delete_media
DeleteInternalError ==
    DeleteResult(FALSE, "An error occurred during media deletion", NoneV, 0,
                 Some("INTERNAL_SERVER_ERROR"))

\* lines 245-267: the row is deleted; logged is what _log_media_action
\* left.  The keyword deleted_file_count is not a field of DeleteResult:
\* deleted_files_count keeps its default.
DeleteLogged(r, logged, afault) ==
    /\ audit' = logged.log
    /\ done' = done \cup
         { Completed(r,
               Some(IF logged.raised THEN DeleteInternalError
                    ELSE DeleteResult(TRUE, "Media deleted successfully",
                                      r.detection_id, 0, NoneV)),
               NoneV, afault) }

\* lines 243-273: del is what delete_detection_media returned
DeleteDone(r, del, afault) ==
    IF del.ok
    THEN /\ db' = del.rows
         /\ DeleteLogged(r,
                _log_media_action(audit, r.user_id, "delete", r.detection_id,
                                  Some(Get(r.quarantine_result).file_count),
                                  now, afault),
                afault)
    ELSE /\ afault = "none"
         /\ done' = done \cup
              { Completed(r,
                    Some(DeleteResult(FALSE,
                             "Failed to delete media from database",
                             NoneV, 0, Some("DATABASE_DELETE_ERROR"))),
                    NoneV, "not_called") }
         /\ UNCHANGED <<db, audit>>

\* delete_media from delete_detection_media to its return
DeleteMediaRecord ==
    \E r \in reqs, afault \in Allowed(AuditFaults) :
        /\ r.op = "delete" /\ r.pc = "db_delete"
        /\ DeleteDone(r, delete_detection_media(db, Get(r.detection_id)), afault)
        /\ reqs' = reqs \ { r }
        /\ nfaults' = Met(afault)
        /\ UNCHANGED <<file_storage, static_file_url_prefix, now, dirs, files, scratch,
                       next_file_id, micro, nops, last>>

----------------------------------------------------------------------------
(* MediaService: get_media_list and get_media_detail *)

\* the users of the view requests: one with a role, one without a record
ViewUsers == { 1, 3 }

\* MediaListQuery.media_type of the list requests
ListMediaTypes == { Some("image") }

\* the rows the filter of the query keeps, as the dicts of the items
get_media_list_paginated(rows, media_type) ==
    LET kept == { i \in DOMAIN rows :
                    /\ HasRow(rows, i)
                    /\ media_type = Some("image")
                         => Present(Get(rows[i]).image_url)
                    /\ media_type = Some("thumbnail")
                         => Present(Get(rows[i]).thumbnail_url)
                    /\ media_type = Some("video_clip")
                         => Present(Get(rows[i]).video_url) }
    IN  [total_count |-> Cardinality(kept),
         items |-> { Get(get_detection_media_by_id(rows, i)) : i \in kept }]

\* what a view returns or raises, and the audit log it leaves
ViewReturn(raised, exc, value, log) ==
    [raised |-> raised, exc |-> exc, value |-> value, log |-> log]

\* lines 159-183: media_result is read; logged is what _log_media_action
\* left.  An exception is re-raised.
ListLogged(media_result, logged) ==
    IF logged.raised
    THEN ViewReturn(TRUE, "audit write failed", NoneV, logged.log)
    ELSE ViewReturn(FALSE, "", Some(media_result), logged.log)

get_media_list(rows, log, user_id, media_type, t, afault) ==
    IF "read" \notin get_user_permissions(user_id)
    THEN ViewReturn(TRUE, "Insufficient permissions for media access", NoneV, log)
    ELSE ListLogged(get_media_list_paginated(rows, media_type),
                    _log_media_action(log, user_id, "list_view", NoneV, NoneV,
                                      t, afault))

\* lines 199-220: media_detail is read and not None; logged is what
\* _log_media_action left.  An exception is raised anew.
DetailLogged(media_detail, logged) ==
    IF logged.raised
    THEN ViewReturn(TRUE,
             "An error occurred while retrieving media detail: audit write failed",
             NoneV, logged.log)
    ELSE ViewReturn(FALSE, "", media_detail, logged.log)

get_media_detail(rows, log, user_id, detection_id, t, afault) ==
    IF "read" \notin get_user_permissions(user_id)
    THEN ViewReturn(FALSE, "", NoneV, log)
    ELSE IF ~HasRow(rows, detection_id)
    THEN ViewReturn(FALSE, "", NoneV, log)
    ELSE DetailLogged(get_detection_media_by_id(rows, detection_id),
                      _log_media_action(log, user_id, "detail_view",
                                        Some(detection_id), NoneV, t, afault))

\* the audit log is written when the check passed and there is a result
ViewLogs(op, user_id, detection_id) ==
    /\ "read" \in get_user_permissions(user_id)
    /\ op = "get_media_detail" => HasRow(db, detection_id)

\* the record of a call of a view
ViewCall(op, user_id, detection_id, media_type, ret, afault) ==
    [NoCall EXCEPT !.op = op, !.user_id = user_id, !.media_type = media_type,
                   !.pre_rows = db, !.pre_audit = audit,
                   !.detection_id = detection_id, !.afault = afault,
                   !.raised = ret.raised, !.exc = ret.exc,
                   !.detail = IF op = "get_media_detail" THEN ret.value ELSE NoneV,
                   !.list = IF op = "get_media_list" THEN ret.value ELSE NoneV]

ApplyView(op, user_id, detection_id, media_type, ret, afault) ==
    /\ afault = "none" \/ ViewLogs(op, user_id, Get(detection_id))
    /\ audit' = ret.log
    /\ last' = ViewCall(op, user_id, detection_id, media_type, ret, afault)
    /\ nfaults' = Met(afault)
    /\ nops' = nops + 1
    /\ UNCHANGED <<file_storage, static_file_url_prefix, now, dirs, files, scratch, db, reqs,
                   done, next_file_id, micro>>

GetMediaList ==
    /\ nops < MaxOps
    /\ Cardinality(reqs) < MaxInFlight
    /\ StartedRequests < MaxRequests
    /\ \E user_id \in ViewUsers, media_type \in ListMediaTypes,
          afault \in Allowed(AuditFaults) :
          ApplyView("get_media_list", user_id, NoneV, media_type,
                    get_media_list(db, audit, user_id, media_type, now, afault),
                    afault)

GetMediaDetail ==
    /\ nops < MaxOps
    /\ Cardinality(reqs) < MaxInFlight
    /\ StartedRequests < MaxRequests
    /\ \E user_id \in ViewUsers, detection_id \in DetectionIds,
          afault \in Allowed(AuditFaults) :
          ApplyView("get_media_detail", user_id, Some(detection_id), NoneV,
                    get_media_detail(db, audit, user_id, detection_id, now,
                                     afault),
                    afault)

Tick ==
    /\ now < MaxTime
    /\ now' = now + 1
    /\ micro' = -1
    /\ UNCHANGED <<file_storage, static_file_url_prefix, dirs, files, scratch, db, audit,
                   reqs, done, next_file_id, nfaults, nops, last>>

----------------------------------------------------------------------------
(* A store operation followed by _move_files_to_quarantine on the URL it   *)
(* returned, as delete_media does with the URL read back from the record.  *)

StoreOps == { "store_image", "store_thumbnail", "store_video_clip" }

\* the key of get_detection_media_by_id's dict for the artifact of a store
MediaTypeOf(op) ==
    CASE op = "store_image" -> "original_image"
      [] op = "store_thumbnail" -> "thumbnail"
      [] OTHER -> "video_clip"

\* the media info of a detection whose only artifact has the URL file_url
MediaInfoOf(op, file_url) ==
    [ [detection_id |-> 1, original_image |-> [url |-> NoneV],
       thumbnail |-> [url |-> NoneV], video_clip |-> [url |-> NoneV]]
      EXCEPT ![MediaTypeOf(op)] = [url |-> file_url] ]

\* q is what _move_files_to_quarantine returned; the record keeps the URL
\* and the path of the store
ApplyStoredQuarantine(q, stored) ==
    /\ dirs' = q.disk.dirs
    /\ files' = q.disk.files
    /\ last' = [QuarantineCall(q, "none") EXCEPT
                  !.inputs = <<Get(stored.file_url), Get(stored.file_path)>>]

QuarantineStoredCall ==
    /\ last.op \in StoreOps
    /\ Get(last.result).success
    /\ \E user_id \in { u \in UserIds : can_delete_media(u) } :
          ApplyStoredQuarantine(
              _move_files_to_quarantine(Disk,
                  MediaInfoOf(last.op, Get(last.result).file_url),
                  user_id, now, "none"),
              Get(last.result))
    /\ UNCHANGED <<file_storage, static_file_url_prefix, now, scratch, db, audit,
                   reqs, done, next_file_id, micro, nfaults, nops>>

----------------------------------------------------------------------------
(* The start of the process: line 613 binds file_storage to a            *)
(* FileStorageManager, whose constructor runs _ensure_directories_exist.  *)
(* Directories of an earlier run may be there already.                    *)

\* required_directories in the order of the loop
RequiredDirectoryList ==
    << <<original_images_directory>>, <<thumbnail_images_directory>>,
       <<original_videos_directory>>, <<video_clips_directory>> >>

\* the directory whose mkdir raises: none (0) or the i-th of the loop
EnsureFaults == 0..Len(RequiredDirectoryList)

\* variant: the exception is logged and the loop goes on
EnsureFailure_Swallowed(ds, fault) ==
    [raised |-> FALSE,
     dirs |-> ds \cup { RequiredDirectoryList[j] :
                          j \in DOMAIN RequiredDirectoryList \ {fault} }]

\* except Exception: raise RuntimeError; the directories before the failing
\* one have been made
EnsureFailure(ds, fault) ==
    [raised |-> TRUE,
     dirs |-> ds \cup { RequiredDirectoryList[j] : j \in 1..(fault - 1) }]

_ensure_directories_exist(ds, fault) ==
    IF fault = 0
    THEN [raised |-> FALSE, dirs |-> ds \cup required_directories]
    ELSE EnsureFailure(ds, fault)

InitProcess ==
    /\ file_storage = "unbound"
    /\ static_file_url_prefix \in StaticPrefixes
    /\ now = 0
    /\ dirs \in SUBSET required_directories
    /\ files = {}
    /\ scratch = {}
    /\ db = [i \in DetectionIds |-> Some(NoUrls)]
    /\ audit = <<>>
    /\ reqs = {}
    /\ done = {}
    /\ next_file_id = 1
    /\ micro = -1
    /\ nfaults = 0
    /\ nops = 0
    /\ last = NoCall

\* file_storage = FileStorageManager(): an exception of the constructor
\* ends the import and leaves the name unbound for good
ConstructFileStorageManager ==
    /\ file_storage = "unbound"
    /\ \E fault \in EnsureFaults :
          LET ensured == _ensure_directories_exist(dirs, fault)
          IN  /\ dirs' = ensured.dirs
              /\ file_storage' = IF ensured.raised THEN "failed"
                                 ELSE "constructed"
    /\ UNCHANGED <<static_file_url_prefix, now, files, scratch, db, audit, reqs,
                   done, next_file_id, micro, nfaults, nops, last>>

\* the store operations are methods of the instance file_storage
ProcessStoreImage == file_storage = "constructed" /\ StoreImageCall
ProcessStoreThumbnail == file_storage = "constructed" /\ StoreThumbnailCall
ProcessStoreVideoClip == file_storage = "constructed" /\ StoreVideoClipCall

----------------------------------------------------------------------------
(* Callers of _generate_file_path that run at the same time, as threads or *)
(* processes over one storage root.  organized_directory.mkdir(parents=    *)
(* True, exist_ok=True) is a sequence of os.mkdir system calls; the        *)
(* callers interleave between the system calls.  A caller is at level k of *)
(* its path: in phase "try" it has not yet attempted level k, in phase     *)
(* "retry" it has created the parent of level k after a FileNotFoundError  *)
(* and attempts level k again.                                             *)

\* os.mkdir(p): what the system call does on the directories ds; the
\* storage root itself exists
os_mkdir(ds, p) ==
    IF p \in ds THEN "FileExistsError"
    ELSE IF Len(p) > 1 /\ SubSeq(p, 1, Len(p) - 1) \notin ds
    THEN "FileNotFoundError"
    ELSE "created"

\* variant: exist_ok=False, an existing directory is an error
ExistOkPasses_Off(ds, p) == FALSE

\* except OSError: if not exist_ok or not self.is_dir(): raise
ExistOkPasses(ds, p) == p \in ds

PathCaller(id, base_directory, device_id, detection_timestamp) ==
    [id |-> id, op |-> "_generate_file_path",
     args |-> <<base_directory, device_id, detection_timestamp>>,
     path |-> OrganizedDirectory(base_directory, device_id, detection_timestamp),
     k |-> Len(OrganizedDirectory(base_directory, device_id,
                                  detection_timestamp)),
     phase |-> "try", raised |-> FALSE, overlapped |-> reqs # {}]

\* a caller enters _generate_file_path
GenerateFilePathStart ==
    /\ Cardinality(reqs) + Cardinality(done) < MaxCallers
    /\ \E base_directory \in required_directories, device_id \in DeviceIds,
          detection_timestamp \in DetectionTimes :
          reqs' = { [c EXCEPT !.overlapped = TRUE] : c \in reqs }
                    \cup { PathCaller(Cardinality(reqs) + Cardinality(done) + 1,
                                      base_directory[1], device_id,
                                      detection_timestamp) }
    /\ UNCHANGED <<file_storage, static_file_url_prefix, now, dirs, files, scratch, db, audit,
                   done, next_file_id, micro, nfaults, nops, last>>

\* the caller after level k exists: the next level up, or the return
PathAdvance(c) ==
    IF c.k = Len(c.path)
    THEN /\ reqs' = reqs \ {c}
         /\ done' = done \cup {c}
    ELSE /\ reqs' = (reqs \ {c}) \cup { [c EXCEPT !.k = @ + 1, !.phase = "retry"] }
         /\ done' = done

\* the exception leaves _generate_file_path
PathRaise(c) ==
    /\ reqs' = reqs \ {c}
    /\ done' = done \cup { [c EXCEPT !.raised = TRUE] }

\* one os.mkdir system call of a caller
GenerateFilePathMkdir ==
    \E c \in reqs :
        /\ c.op = "_generate_file_path"
        /\ LET p == SubSeq(c.path, 1, c.k)
               outcome == os_mkdir(dirs, p)
           IN  CASE outcome = "created" ->
                      /\ dirs' = dirs \cup {p}
                      /\ PathAdvance(c)
                 [] outcome = "FileExistsError" ->
                      /\ dirs' = dirs
                      /\ IF ExistOkPasses(dirs, p) THEN PathAdvance(c)
                         ELSE PathRaise(c)
                 [] OTHER ->
                      \* FileNotFoundError: with parents=True the parent is
                      \* made first; the second attempt has parents=False
                      /\ dirs' = dirs
                      /\ IF c.phase = "try"
                         THEN /\ reqs' = (reqs \ {c})
                                           \cup { [c EXCEPT !.k = @ - 1] }
                              /\ done' = done
                         ELSE PathRaise(c)
        /\ UNCHANGED <<file_storage, static_file_url_prefix, now, files, scratch, db, audit,
                       next_file_id, micro, nfaults, nops, last>>

----------------------------------------------------------------------------
(* Calls of the helpers of FileStorageManager *)

\* the instants datetime.now() can return
Instants == { [sec |-> sec, micro |-> m] : sec \in 0..MaxTime, m \in Micros }

\* file types handed to _generate_filename
NameFileTypes == { "thumbnail", "video_clip", "image", "video", "document" }

\* original file names handed to _generate_filename
OriginalFilenames ==
    { NoneV, Some(PlainName("photo", ".jpg")), Some(PlainName("photo", ".PNG")),
      Some(PlainName("photo", "")) }

\* the record of calls of a helper: the inputs and what they returned
HelperCall(op, inputs, outputs) ==
    [NoCall EXCEPT !.op = op, !.inputs = inputs, !.outputs = outputs]

ApplyHelper(op, inputs, outputs) ==
    /\ last' = HelperCall(op, inputs, outputs)
    /\ nops' = nops + 1
    /\ UNCHANGED <<file_storage, static_file_url_prefix, now, dirs, files, scratch, db, audit,
                   reqs, done, next_file_id, micro, nfaults>>

\* two calls of _generate_filename with the same arguments, at the
\* instants i1 and i2 of the clock; strftime("%Y%m%d_%H%M%S") of an instant
\* keeps its seconds
\* The record keeps the kind and the original name of the calls, and the
\* extension of the first name.
GenerateFilenameCall ==
    /\ nops < MaxOps
    /\ \E detection_seq \in DetectionSeqs, file_type \in NameFileTypes,
          detection_timestamp \in DetectionTimes,
          original_filename \in OriginalFilenames, i1 \in Instants,
          i2 \in Instants :
          ApplyHelper("_generate_filename",
              <<i1, i2, file_type, original_filename>>,
              <<_generate_filename(detection_seq, file_type,
                                   detection_timestamp, original_filename,
                                   i1.sec),
                _generate_filename(detection_seq, file_type,
                                   detection_timestamp, original_filename,
                                   i2.sec),
                FilenameParts(detection_seq, file_type, detection_timestamp,
                              original_filename, i1.sec).ext>>)

\* device labels handed to _extract_device_id, as the list
\* re.findall(r'\d+', label) yields for them: "Camera-07-backyard", "lobby",
\* "cam0", "cam9999", "cam10000", "rack12-cam5"
DeviceLabels == { <<7>>, <<>>, <<0>>, <<9999>>, <<10000>>, <<12, 5>> }

ExtractDeviceIdCall ==
    /\ nops < MaxOps
    /\ \E device_name \in DeviceLabels :
          ApplyHelper("_extract_device_id", <<device_name>>,
                      <<_extract_device_id(device_name)>>)

\* files handed to _validate_file: those of Sources, and files that fail
\* more than one check
ValidationSources ==
    Sources \cup
    { [name |-> PlainName(st, ".exe"), exists |-> TRUE, size |-> size,
       ctype |-> ctype] :
        st \in SourceStems,
        size \in { max_image_file_size_bytes + 1, max_video_file_size_bytes + 1 },
        ctype \in { "image", "video" } }

\* file types handed to _validate_file
ValidatedFileTypes == { "image", "thumbnail", "video", "video_clip" }

ValidateFileCall ==
    /\ nops < MaxOps
    /\ \E src \in ValidationSources, file_type \in ValidatedFileTypes :
          ApplyHelper("_validate_file", <<src, file_type>>,
                      <<_validate_file(src, file_type)>>)

\* calls of the helpers
NextHelpers ==
    \/ GenerateFilenameCall
    \/ ExtractDeviceIdCall
    \/ ValidateFileCall

SpecHelpers == Init /\ [][NextHelpers]_vars

----------------------------------------------------------------------------
(* Calls of MediaRepository.update_detection_media_urls on tables of       *)
(* detection_result rows                                                   *)

\* URLs of artifacts, and the values of a URL argument or column
ArtifactUrls == { <<"uploads", "images", "a.jpg">>, <<"uploads", "images", "b.jpg">> }
OptionalUrls == { NoneV } \cup { Some(u) : u \in ArtifactUrls }

\* the rows a table can hold at one id: none, one without URLs, one with
\* an image, one with the three URLs
TableRows ==
    { NoneV, Some(NoUrls),
      Some([NoUrls EXCEPT !.image_url = Some(<<"uploads", "images", "a.jpg">>)]),
      Some([image_url |-> Some(<<"uploads", "images", "a.jpg">>),
            thumbnail_url |-> Some(<<"uploads", "images", "a.jpg">>),
            video_url |-> Some(<<"uploads", "images", "a.jpg">>)]) }

UpdateDetectionMediaUrlsCall ==
    /\ nops < MaxOps
    /\ \E rows \in [DetectionIds -> TableRows],
          detection_id \in DetectionIds \cup {0},
          image_url \in OptionalUrls, thumbnail_url \in OptionalUrls,
          video_url \in OptionalUrls :
          ApplyHelper("update_detection_media_urls",
              <<rows, detection_id, image_url, thumbnail_url, video_url>>,
              <<update_detection_media_urls(rows, detection_id, image_url,
                                            thumbnail_url, video_url)>>)

\* calls of save_detection_media
Next ==
    \/ SaveDetectionMediaCall

Spec == Init /\ [][Next]_vars

\* direct calls of the three store operations
NextStore ==
    \/ StoreImageCall
    \/ StoreThumbnailCall
    \/ StoreVideoClipCall
    \/ Tick

SpecStore == Init /\ [][NextStore]_vars

\* callers of _generate_file_path, interleaved at their system calls
NextDirs ==
    \/ GenerateFilePathStart
    \/ GenerateFilePathMkdir

SpecDirs == Init /\ [][NextDirs]_vars

\* calls of the repository on its own
NextRepository ==
    \/ UpdateDetectionMediaUrlsCall

SpecRepository == Init /\ [][NextRepository]_vars

\* a store, then the quarantine of what it stored
NextRoundTrip ==
    \/ StoreImageCall
    \/ StoreThumbnailCall
    \/ StoreVideoClipCall
    \/ QuarantineStoredCall

SpecRoundTrip == Init /\ [][NextRoundTrip]_vars

\* the process from its start: construction, then store operations
NextProcess ==
    \/ ConstructFileStorageManager
    \/ ProcessStoreImage
    \/ ProcessStoreThumbnail
    \/ ProcessStoreVideoClip

SpecProcess == InitProcess /\ [][NextProcess]_vars

\* MediaService requests, interleaved at their await points
NextService ==
    \/ UploadMediaFileStore
    \/ UploadMediaFileRecord
    \/ DeleteMediaLookup
    \/ DeleteMediaQuarantine
    \/ DeleteMediaRecord
    \/ GetMediaList
    \/ GetMediaDetail

\* the service runs with settings.static_files_url_prefix
InitService == Init /\ static_file_url_prefix = <<"uploads">>

SpecService == InitService /\ [][NextService]_vars

----------------------------------------------------------------------------
(* Claims about save_detection_media, checked under Spec *)

IsIngest == last.op = "save_detection_media"
Response == Get(last.response)
Unrecognized(file_type) ==
    Lower(file_type) \notin ImageFamily /\ Lower(file_type) \notin VideoFamily

\* C1: whatever branch save_detection_media takes, the scratch file it
\* wrote no longer exists when the call returns, unless the unlink failed.
C1_ScratchFileDeleted ==
    (IsIngest /\ Present(last.temp) /\ last.ifault # "unlink_raises")
        => Get(last.temp) \notin scratch

\* C2: in an image-family ingest, an image stored and a thumbnail that
\* failed give success with image_url, no thumbnail_url and warnings; a
\* failed store of the image gives an overall failure.
C2_ThumbnailFailureIsWarning ==
    IsIngest =>
        /\ (/\ Present(last.image_result) /\ Get(last.image_result).success
            /\ Present(last.thumbnail_result)
            /\ ~Get(last.thumbnail_result).success)
              => /\ Response.success
                 /\ Response.image_url = Get(last.image_result).file_url
                 /\ Present(Response.image_url)
                 /\ ~Present(Response.thumbnail_url)
                 /\ Response.warnings # <<>>
        /\ (Present(last.image_result) /\ ~Get(last.image_result).success)
              => ~Response.success

C2_Witness ==
    /\ IsIngest
    /\ Present(last.image_result) /\ Get(last.image_result).success
    /\ Present(last.thumbnail_result) /\ ~Get(last.thumbnail_result).success
    /\ last.ifault = "none"
    /\ Response.success /\ Response.warnings # <<>>

\* C3: in a video-family ingest, a clip store that does not succeed
\* (validation failure, toolchain failure with or without fallback copy,
\* exception) gives success = false with an error and no video_url.
C3_ClipFailureIsFailure ==
    (IsIngest /\ Lower(Response.file_type) \in VideoFamily) =>
        /\ (Present(last.video_result) /\ ~Get(last.video_result).success)
              => /\ ~Response.success
                 /\ Present(Response.error)
                 /\ ~Present(Response.video_url)
        /\ (Present(last.video_result)
            /\ last.fault \in {"validate_raises", "mkdir_raises", "tool_fallback",
                               "tool_nofile", "tool_raises", "stat_raises"})
              => (~Response.success /\ ~Present(Response.video_url))
        /\ Response.success
              => (Present(last.video_result) /\ Get(last.video_result).success)

\* a clip whose toolchain failed was copied to its destination, and the
\* ingest failed
C3_Witness ==
    /\ IsIngest /\ Lower(Response.file_type) \in VideoFamily
    /\ last.fault = "tool_fallback"
    /\ \E f \in files : f.how = "fallback"
    /\ ~Response.success

\* C4: an ingest of an unrecognized kind fails with an error and leaves
\* the filesystem as it was: nothing under the storage root, nothing in
\* the scratch area.
C4_UnrecognizedKindChangesNothing ==
    (IsIngest /\ Unrecognized(Response.file_type)
     /\ last.ifault = "none") =>
        /\ ~Response.success
        /\ Present(Response.error)
        /\ dirs = last.pre_dirs
        /\ files = last.pre_files
        /\ scratch = last.pre_scratch

\* the artifact URLs present in the last ingest outcome
UrlsPresent ==
    { k \in {"image_url", "thumbnail_url", "video_url"} : Present(Response[k]) }

\* C24: in every ingest outcome a thumbnail URL comes with an image URL; a
\* success has at least one artifact URL and generated_files is the number
\* of URLs present; a failure has no artifact URL; warnings appear only in
\* successful outcomes of the image family.
C24_IngestOutcomeIsConsistent ==
    IsIngest =>
        /\ Present(Response.thumbnail_url) => Present(Response.image_url)
        /\ Response.success =>
               /\ UrlsPresent # {}
               /\ Response.generated_files = Some(Cardinality(UrlsPresent))
        /\ ~Response.success => UrlsPresent = {}
        /\ Response.warnings # <<>> =>
               /\ Response.success
               /\ Lower(Response.file_type) \in ImageFamily

\* an image was ingested whose thumbnail failed: one URL and a warning
C24_Witness ==
    /\ IsIngest
    /\ Response.success
    /\ Response.warnings # <<>>
    /\ UrlsPresent = {"image_url"}
    /\ Response.generated_files = Some(1)

----------------------------------------------------------------------------
(* Claims about the store operations, checked under SpecStore *)

IsStore == last.op \in {"store_image", "store_thumbnail", "store_video_clip"}
Result == Get(last.result)
Source == Get(last.src)
ValidatedAs == IF last.op = "store_video_clip" THEN "video" ELSE "image"
SizeLimit == IF last.op = "store_video_clip" THEN max_video_file_size_bytes
             ELSE max_image_file_size_bytes

\* C5: a store whose source fails validation (a file one byte over the
\* per-kind ceiling included) returns success = false with the reason of
\* the validation and changes nothing under the storage root.
C5_ValidationFailureChangesNothing ==
    IsStore =>
        /\ (last.fault # "validate_raises"
            /\ ~_validate_file(Source, ValidatedAs).ok)
              => /\ ~Result.success
                 /\ Result.error_message
                      = Some(_validate_file(Source, ValidatedAs).msg)
                 /\ dirs = last.pre_dirs
                 /\ files = last.pre_files
        /\ (Source.exists /\ Source.size > SizeLimit)
              => /\ ~Result.success
                 /\ dirs = last.pre_dirs
                 /\ files = last.pre_files

\* a file one byte over the ceiling of its kind was refused
C5_Witness ==
    /\ IsStore
    /\ last.fault = "none"
    /\ Source.exists /\ Source.size = SizeLimit + 1
    /\ Source.name.ext \in (IF ValidatedAs = "image" THEN ImageExtensions
                            ELSE VideoExtensions)
    /\ Source.ctype = ValidatedAs
    /\ ~Result.success

RaisingFaults == { "validate_raises", "mkdir_raises", "copy_raises",
                   "tool_raises", "stat_raises" }

\* C6: no store operation raises to its caller; an exception raised
\* anywhere in it comes back as a result with success = false and an
\* error message.
C6_StoreNeverRaises ==
    IsStore =>
        /\ ~last.raised
        /\ last.fault \in RaisingFaults
              => (~Result.success /\ Present(Result.error_message))

\* an exception was raised after validation, inside the operation
C6_Witness ==
    /\ IsStore
    /\ last.fault \in {"copy_raises", "tool_raises", "stat_raises"}
    /\ _validate_file(Source, ValidatedAs).ok
    /\ ~last.raised /\ ~Result.success

\* C7: file_url and file_path are present iff success; error_message is
\* present iff failure.
C7_ResultShape ==
    IsStore =>
        /\ Present(Result.file_url) <=> Result.success
        /\ Present(Result.file_path) <=> Result.success
        /\ Present(Result.error_message) <=> ~Result.success

C7_Witness ==
    /\ IsStore /\ ~Result.success /\ Present(Result.error_message)
    /\ \E f \in files : f.how = "fallback"

\* the URL with the static prefix stripped, resolved against the root
StripPrefix(url, prefix) ==
    IF Len(url) >= Len(prefix) /\ SubSeq(url, 1, Len(prefix)) = prefix
    THEN Some(SubSeq(url, Len(prefix) + 1, Len(url)))
    ELSE NoneV

\* C8: the URL of a successful store is the static prefix, "/", and the
\* path relative to the root; stripping the prefix and resolving against
\* the root gives a file that exists and has the returned size.
C8_UrlRoundTrip ==
    (IsStore /\ Result.success) =>
        LET url == Get(Result.file_url)
            rel == StripPrefix(url, static_file_url_prefix)
        IN  /\ url = static_file_url_prefix \o Get(Result.file_path)
            /\ Present(rel)
            /\ Get(rel) = Get(Result.file_path)
            /\ Exists(files, Get(rel))
            /\ Present(Result.file_size_bytes)
            /\ FileAt(files, Get(rel)).size = Get(Result.file_size_bytes)

\* a thumbnail was processed and stored: its size is not the source's
C8_Witness ==
    /\ IsStore /\ Result.success
    /\ last.op = "store_thumbnail"
    /\ Get(Result.file_size_bytes) # Source.size
    /\ static_file_url_prefix # <<"uploads">>

----------------------------------------------------------------------------
(* Claims about delete_media, checked under SpecService *)

IsQuarantine == last.op = "_move_files_to_quarantine"
InQuarantine(path) == path[1] = "quarantine"
SuccessfulDeletes ==
    { r \in done : r.op = "delete" /\ Get(r.delete_result).success }

\* C9: delete_media deletes the database record only after the quarantine
\* move was performed, and every file that existed before the move still
\* exists afterwards, at its original path or under the quarantine area.
C9_DeleteDestroysNoFile ==
    /\ \A r \in SuccessfulDeletes : Present(r.quarantine_result)
    /\ \A r \in reqs :
          (r.op = "delete" /\ ~Present(r.quarantine_result))
              => HasRow(db, Get(r.detection_id))
                   \/ \E o \in SuccessfulDeletes : o.detection_id = r.detection_id
    /\ IsQuarantine =>
          \A f \in last.pre_files :
              \E g \in last.post_files :
                  /\ g.id = f.id
                  /\ g.path = f.path \/ InQuarantine(g.path)

\* the files the last quarantine call moved into the quarantine area
MovedByCall ==
    { f \in last.pre_files :
        /\ ~InQuarantine(f.path)
        /\ ~Exists(last.post_files, f.path)
        /\ \E g \in last.post_files : g.id = f.id /\ InQuarantine(g.path) }

\* C10: quarantine skips the URLs whose file is missing without raising,
\* the file_count it returns is the number of files the call moved into
\* the quarantine area, and the audit entry of the delete records it.
C10_FileCountIsNumberMoved ==
    /\ IsQuarantine =>
          Get(last.quarantine_result).file_count = Cardinality(MovedByCall)
    /\ \A i \in 1..Len(audit) :
          audit[i].action = "delete" =>
              \E r \in SuccessfulDeletes :
                  /\ r.user_id = audit[i].user_id
                  /\ r.detection_id = audit[i].target_id
                  /\ audit[i].file_moved
                       = Some(Get(r.quarantine_result).file_count)

\* two deletes of the same detection that were given the same media info
\* and both reached the quarantine step: each looked the record up before
\* the other deleted it.  No upload stored files once the first had begun.
ConcurrentDeletes ==
    { p \in done \X done :
        /\ p[1].op = "delete" /\ p[2].op = "delete"
        /\ p[1].id < p[2].id
        /\ p[1].detection_id = p[2].detection_id
        /\ p[1].media_info = p[2].media_info
        /\ ~\E u \in reqs \cup done : u.op = "upload" /\ u.id > p[1].id
        /\ Present(p[1].quarantine_result)
        /\ Present(p[2].quarantine_result) }

\* C25: of two concurrent deletes of the same detection, no file is moved
\* to quarantine by both, the moved counts add up to the number of files
\* that existed, and at most one of them reports success.
C25_ConcurrentDeletesMoveEachFileOnce ==
    \A p \in ConcurrentDeletes :
        /\ p[1].moved \cap p[2].moved = {}
        /\ Get(p[1].quarantine_result).file_count
             + Get(p[2].quarantine_result).file_count
             = Cardinality(p[1].existed \cup p[2].existed)
        /\ ~( /\ Get(p[1].delete_result).success
              /\ Get(p[2].delete_result).success )

\* the paths of the artifacts an ingest outcome names
StoredPaths(storage_result) ==
    { QuarantineSource(Get(storage_result[k])) :
        k \in { u \in {"image_url", "thumbnail_url", "video_url"} :
                  Present(storage_result[u]) } }

\* C26: when upload_media_file returns a failure, no artifact file that the
\* upload wrote remains under the storage root.
C26_FailedUploadLeavesNoFile ==
    \A r \in done :
        ( /\ r.op = "upload"
          /\ ~Get(r.upload_response).success
          /\ Present(r.storage_result) )
        => \A path \in StoredPaths(Get(r.storage_result)) : ~Exists(files, path)

\* the deletes that have run their quarantine step
Quarantined ==
    { r \in reqs \cup done : r.op = "delete" /\ Present(r.quarantine_result) }

RECURSIVE MovedCounts(_)
\* the file_count of the quarantine steps of the deletes rs, added up
MovedCounts(rs) ==
    IF rs = {} THEN 0
    ELSE LET r == CHOOSE x \in rs : TRUE
         IN  Get(r.quarantine_result).file_count + MovedCounts(rs \ {r})

\* C28: a quarantine move never replaces a file that is already in the
\* quarantine area: every file that was there before a quarantine call is
\* still there afterwards, and the number of files in the quarantine area
\* is the total of the moved counts reported.
C28_QuarantineNeverOverwrites ==
    /\ IsQuarantine =>
          \A f \in last.pre_files :
              InQuarantine(f.path) => \E g \in last.post_files : g.id = f.id
    /\ Cardinality({ f \in files : InQuarantine(f.path) }) = MovedCounts(Quarantined)

\* C29: the deleted_files_count of a successful delete is the file_count
\* its quarantine step returned.
C29_DeletedCountIsQuarantineCount ==
    \A r \in SuccessfulDeletes :
        Get(r.delete_result).deleted_files_count
          = Get(r.quarantine_result).file_count

----------------------------------------------------------------------------
(* Claims about the failure results of the store operations, checked under *)
(* SpecStore                                                               *)

\* the toolchain of the last store call failed and copied the source to
\* the destination
FellBack == IsStore /\ last.fault = "tool_fallback" /\ files # last.pre_files

\* the files the last call left under the storage root
LeftByCall == files \ last.pre_files

\* C19: when the toolchain fails and the source is copied to the
\* destination unchanged, the copy is at the destination and the result
\* shows it: it is not a success, which tells it from a processed
\* artifact, and it names the artifact, which tells it from the result of
\* a store that left no artifact.
C19_FallbackIsObservable ==
    FellBack =>
        /\ \E f \in LeftByCall : f.how = "fallback" /\ f.size = Source.size
        /\ ~Result.success
        /\ Present(Result.file_path)
        /\ \E f \in LeftByCall : Result.file_path = Some(f.path)

\* the messages the handlers of the store operations begin with
StoreContexts ==
    { "image store failed", "video clip store failed", "thumbnail store failed" }

\* the message is a handler's context followed by the text of the exception
Embeds(error_message, exc) ==
    \E context \in StoreContexts : error_message = Some(context \o ": " \o exc)

\* the last store call caught an exception in its handler
CaughtException == IsStore /\ ~last.raised /\ last.exc # ""

\* C20: a failure result of a store operation carries an error code and a
\* message, and when the failure is an exception caught by the handler the
\* message does not contain the text of that exception.
C20_FailuresAreCodedAndOpaque ==
    (IsStore /\ ~Result.success) =>
        /\ "error_code" \in DOMAIN Result
        /\ Present(Result.error_message)
        /\ CaughtException => ~Embeds(Result.error_message, last.exc)

----------------------------------------------------------------------------
(* Claims about the audit log and the permission checks, checked under     *)
(* SpecService                                                             *)

IsView == last.op \in {"get_media_list", "get_media_detail"}
AuditFailed(c) == c.audit_write = "write_raises"

\* C11: a failed write of the audit log does not change the outcome of the
\* operation that asked for it.  An upload or a delete whose audit write
\* failed returns the success result it returns when the write succeeds; a
\* list or detail view whose audit write failed returns what the repository
\* read; no exception of the write leaves the operation.
C11_AuditFailureChangesNoOutcome ==
    /\ \A c \in done :
          AuditFailed(c) =>
            /\ c.op = "upload" =>
                 /\ Get(c.upload_response).success
                 /\ Get(c.upload_response).message
                      = "File upload completed successfully"
                 /\ Get(c.upload_response).error_code = NoneV
                 /\ Present(Get(c.upload_response).detection_media)
            /\ c.op = "delete" =>
                 Get(c.delete_result)
                   = DeleteResult(TRUE, "Media deleted successfully",
                                  c.detection_id, 0, NoneV)
    /\ (IsView /\ last.afault = "write_raises") =>
          /\ ~last.raised
          /\ last.op = "get_media_detail" =>
               last.detail = get_detection_media_by_id(
                                 last.pre_rows, Get(last.detection_id))
          /\ last.op = "get_media_list" =>
               last.list = Some(get_media_list_paginated(last.pre_rows,
                                                         last.media_type))

\* an upload has returned after its write of the audit log failed
C11_Witness ==
    \E c \in done : AuditFailed(c) /\ c.op = "upload"

\* the upload stored its artifacts under the storage root
Wrote(c) ==
    c.op = "upload" /\ Present(c.storage_result)
      /\ Get(c.storage_result).success

\* the delete moved a file to quarantine or removed the record
Removed(c) ==
    c.op = "delete"
      /\ \/ Present(c.quarantine_result)
              /\ Get(c.quarantine_result).file_count > 0
         \/ Present(c.delete_result) /\ Get(c.delete_result).success

Entries(action) == { i \in DOMAIN audit : audit[i].action = action }

\* C12: the audit log holds one entry for every mutating action that has
\* returned: as many upload entries as uploads that stored artifacts, and
\* as many delete entries as deletes that moved a file or removed a record.
C12_EveryMutationIsLogged ==
    /\ Cardinality(Entries("upload")) = Cardinality({ c \in done : Wrote(c) })
    /\ Cardinality(Entries("delete")) = Cardinality({ c \in done : Removed(c) })

\* the request is one its permission check refuses
Denied(c) ==
    \/ c.op = "delete" /\ "delete" \notin get_user_permissions(c.user_id)
    \/ c.op = "upload" /\ c.user_id \notin DOMAIN UserRoleSeq

Refusal(c) ==
    IF c.op = "delete" THEN Get(c.delete_result) ELSE Get(c.upload_response)

\* C13: an operation whose permission check fails takes no effect.  The
\* step in which a refused delete or upload returns changes neither the
\* disk nor the table nor the audit log and returns
\* INSUFFICIENT_PERMISSIONS; no refused request ever gets past its check; a
\* view by a user without the read permission returns no media data.
C13_DeniedOperationsChangeNothing ==
    [][ /\ \A c \in done' \ done :
              Denied(c) =>
                /\ UNCHANGED <<dirs, files, scratch, db, audit, reqs>>
                /\ c.quarantine_result = NoneV
                /\ c.storage_result = NoneV
                /\ ~Refusal(c).success
                /\ Refusal(c).error_code = Some("INSUFFICIENT_PERMISSIONS")
        /\ \A r \in reqs' : ~Denied(r)
        /\ (IsView' /\ "read" \notin get_user_permissions(last'.user_id)) =>
              last'.detail = NoneV /\ last'.list = NoneV
      ]_vars

\* a delete by a user without the delete permission and an upload for a
\* user id without a record have both returned
C13_Witness ==
    /\ \E c \in done : c.op = "delete" /\ Denied(c)
    /\ \E c \in done : c.op = "upload" /\ Denied(c)

\* C15: no write of an ingest goes to a path under the storage root that
\* already holds a file: after the call every file that was there before
\* it is still the file at its path.
C15_NoWriteOverExistingFile ==
    IsIngest =>
        \A g \in last.pre_files :
            \E f \in files : f.path = g.path /\ f.id = g.id

\* C18: an upload that carries an existing detection id has its artifacts
\* stored under that id: the detection id of the ingest outcome is the one
\* the caller supplied.
C18_SuppliedDetectionIdIsUsed ==
    \A r \in reqs \cup done :
        ( /\ r.op = "upload"
          /\ Present(r.detection_id)
          /\ Present(r.storage_result)
          /\ Get(r.storage_result).success )
        => Get(r.storage_result).detection_id = r.detection_id

----------------------------------------------------------------------------
(* Claims about the helpers, checked under SpecHelpers *)

IsHelper(op) == last.op = op

\* C14: two calls of _generate_filename with the same detection sequence
\* number, kind, detection timestamp, original file name and environment
\* give the same name when the processing instants are the same, and
\* different names when the processing instants differ.
C14_NamesDifferWithInstant ==
    IsHelper("_generate_filename") =>
        /\ last.inputs[1] = last.inputs[2] => last.outputs[1] = last.outputs[2]
        /\ last.inputs[1] # last.inputs[2] => last.outputs[1] # last.outputs[2]

\* n clamped to the range 1..9999
Clamp(n) == IF n < 1 THEN 1 ELSE IF n > 9999 THEN 9999 ELSE n

\* C17: the device id of a label is its first embedded number clamped to
\* 1..9999, and 1 when the label has no digits; it always lies in 1..9999.
C17_DeviceIdIsFirstNumberClamped ==
    IsHelper("_extract_device_id") =>
        /\ last.outputs[1] \in 1..9999
        /\ last.inputs[1] = <<>> => last.outputs[1] = 1
        /\ last.inputs[1] # <<>> => last.outputs[1] = Clamp(last.inputs[1][1])

\* the kind a file type is validated as, its size limit and its allow-list
ExpectedKind(file_type) ==
    IF file_type \in {"image", "thumbnail"} THEN "image" ELSE "video"
KindLimit(kind) ==
    IF kind = "image" THEN max_image_file_size_bytes
    ELSE max_video_file_size_bytes
KindExtensions(kind) ==
    IF kind = "image" THEN ImageExtensions ELSE VideoExtensions

\* the reason of the first of the four checks that fails for src, "" when
\* none fails
FirstFailure(src, kind) ==
    IF ~src.exists THEN "file not found"
    ELSE IF src.size > KindLimit(kind) THEN "file too large"
    ELSE IF src.name.ext \notin KindExtensions(kind) THEN "extension not allowed"
    ELSE IF src.ctype # kind THEN "content type mismatch"
    ELSE ""

DefaultedKinds == { "thumbnail", "image", "video", "video_clip" }

\* the original name of the last call supplies an extension
SuppliesExtension(original_filename) ==
    Present(original_filename) /\ Get(original_filename).ext # ""

\* C21: the extension of a generated name is the extension of the original
\* file name when it has one, and otherwise the default of the kind: .jpg
\* for image and thumbnail, .mp4 for video and video_clip.
C21_ExtensionIsOriginalOrDefault ==
    (IsHelper("_generate_filename") /\ last.inputs[3] \in DefaultedKinds) =>
        IF SuppliesExtension(last.inputs[4])
        THEN last.outputs[3] = SuffixLower(Get(last.inputs[4]).ext)
        ELSE last.outputs[3]
               = (IF last.inputs[3] \in {"image", "thumbnail"} THEN ".jpg"
                  ELSE ".mp4")

----------------------------------------------------------------------------
(* Claims about the directories: checked under SpecDirs *)

\* two callers that were given the same base, device id and timestamp
SameDirectory(c1, c2) == c1.id # c2.id /\ c1.args = c2.args

\* C22: every caller of _generate_file_path returns without an exception,
\* with the path base/YYYY/MM/device_NNN of its arguments, and that
\* directory exists afterwards; two callers with the same arguments, one
\* after the other or interleaved, return the same path.
C22_DirectoryCreationIsIdempotent ==
    /\ \A c \in done :
           /\ ~c.raised
           /\ c.path = <<c.args[1], c.args[3].year, c.args[3].month,
                         "device_" \o Pad3(c.args[2])>>
           /\ Prefixes(c.path) \subseteq dirs
    /\ \A c1, c2 \in done : SameDirectory(c1, c2) => c1.path = c2.path

\* two callers with the same arguments ran interleaved and both returned
C22_Witness ==
    \E c1, c2 \in done :
        /\ SameDirectory(c1, c2)
        /\ c1.overlapped /\ c2.overlapped
        /\ ~c1.raised /\ ~c2.raised

----------------------------------------------------------------------------
(* Claims about the start of the process: checked under SpecProcess *)

\* C23: the four kind directories exist whenever a store operation is
\* attempted: a constructed storage manager has made them all, and when
\* making one of them fails the construction fails and no store operation
\* is ever attempted.
C23_KindDirectoriesExistBeforeStores ==
    /\ file_storage = "constructed" => required_directories \subseteq dirs
    /\ IsStore => /\ file_storage = "constructed"
                  /\ required_directories \subseteq last.pre_dirs
    /\ file_storage = "failed" => last = NoCall

\* a store operation ran on a constructed storage manager
C23_Witness ==
    /\ IsStore
    /\ file_storage = "constructed"
    /\ required_directories \subseteq last.pre_dirs

\* the construction failed with a kind directory missing
C23_FailedConstruction ==
    file_storage = "failed" /\ ~(required_directories \subseteq dirs)

----------------------------------------------------------------------------
(* Claims about the URLs: checked under SpecRoundTrip *)

\* the last call quarantined the artifact of a successful store
QuarantinedStored == IsQuarantine /\ last.inputs # <<>>

\* C27: under every configured static prefix, _move_files_to_quarantine
\* resolves the URL of a successful store to the path the store wrote: the
\* stored file is found and moved into the quarantine area.
C27_QuarantineResolvesStoreUrls ==
    QuarantinedStored =>
        /\ Exists(last.pre_files, last.inputs[2])
        /\ ~Exists(files, last.inputs[2])
        /\ Get(last.quarantine_result).file_count = 1
        /\ \E f \in files :
              /\ InQuarantine(f.path)
              /\ f.id = FileAt(last.pre_files, last.inputs[2]).id

----------------------------------------------------------------------------
(* Claims about the repository: checked under SpecRepository *)

\* the arguments and the outcome of the last call of
\* update_detection_media_urls
UpdateArgs ==
    [rows |-> last.inputs[1], detection_id |-> last.inputs[2],
     urls |-> [image_url |-> last.inputs[3], thumbnail_url |-> last.inputs[4],
               video_url |-> last.inputs[5]],
     ok |-> last.outputs[1].ok, after |-> last.outputs[1].rows]

UrlFields == { "image_url", "thumbnail_url", "video_url" }

\* C30: update_detection_media_urls sets the URL fields of the addressed
\* record whose argument is not None, and leaves its other URL fields and
\* all other records as they were; when the record does not exist or the
\* three arguments are None it returns False and changes nothing.
C30_UpdateChangesOnlyGivenUrls ==
    IsHelper("update_detection_media_urls") =>
        /\ \A i \in DOMAIN UpdateArgs.rows \ {UpdateArgs.detection_id} :
               UpdateArgs.after[i] = UpdateArgs.rows[i]
        /\ IF /\ HasRow(UpdateArgs.rows, UpdateArgs.detection_id)
              /\ \E k \in UrlFields : Present(UpdateArgs.urls[k])
           THEN /\ UpdateArgs.ok
                /\ HasRow(UpdateArgs.after, UpdateArgs.detection_id)
                /\ \A k \in UrlFields :
                       Get(UpdateArgs.after[UpdateArgs.detection_id])[k]
                         = IF Present(UpdateArgs.urls[k]) THEN UpdateArgs.urls[k]
                           ELSE Get(UpdateArgs.rows[UpdateArgs.detection_id])[k]
           ELSE /\ ~UpdateArgs.ok
                /\ UpdateArgs.after = UpdateArgs.rows

\* a record with three URLs got a new image URL and kept the other two
C30_Witness ==
    /\ IsHelper("update_detection_media_urls")
    /\ HasRow(UpdateArgs.rows, UpdateArgs.detection_id)
    /\ Present(UpdateArgs.urls.image_url)
    /\ ~Present(UpdateArgs.urls.thumbnail_url)
    /\ Present(Get(UpdateArgs.rows[UpdateArgs.detection_id]).thumbnail_url)
    /\ UpdateArgs.ok
    /\ UpdateArgs.after # UpdateArgs.rows

====
